---- MODULE Spec2Model ----
(***************************************************************************)
(* Flat-structuring-element min/max filters of libprocess/filters.c:       *)
(* the length planner, the row precompute engine, border extension, the    *)
(* kernel run-length encoding, the rolling row sweep and the facade        *)
(* gwy_data_field_area_filter_min_max_real().                              *)
(*                                                                         *)
(* C arrays are 0-based; sequences here are 1-based, so element i of a C   *)
(* array is element i+1 of the sequence that models it.                    *)
(***************************************************************************)
EXTENDS Integers, Sequences, FiniteSets

VARIABLES
    field,      \* the data field: [xres, yres, data], data row-major
    den,        \* per-sample denominator of field.data (1 unless normalised)
    kernel,     \* the (cropped) structuring element: [xres, yres, data]
    calls,      \* number of calls made so far
    op,         \* filter type of the last call
    area,       \* [col, row, width, height] of the last call
    before,     \* field.data as it was when the last call started
                \* (encoder / flip operations: mrle as it was encoded)
    outmin,     \* outbuf of the last minimum sweep of the last call
    outmax,     \* outbuf of the last maximum sweep of the last call
    mrle,       \* the MaskRLE under study (encoder / flip operations)
    flips,      \* how many times mrle has been flipped
    lens,       \* block lengths handed to the planner
    xrow,       \* the extended row handed to a row fill
    prow,       \* the MinMaxPrecomputedRow produced by the last row fill
    ismax,      \* comparator of the last row fill
    entered,    \* how often the last call entered the analysis (with its
                \* planner) and the sweep: [analyse, execute]
    asf,        \* [radius, closing] of the last alternating sequential
                \* filter call
    plan,       \* the MinMaxPrecomputedReq the planner made last
    window,     \* prows[] of a sweep in progress: one MinMaxPrecomputedRow
                \* for each kernel row
    sweeprow    \* the output row i the sweep in progress is about to extract

vars == <<field, den, kernel, calls, op, area, before, outmin, outmax,
          mrle, flips, lens, xrow, prow, ismax, entered,
          asf, plan, window, sweeprow>>

----------------------------------------------------------------------------
(* Bounds of the model. *)

MaxXres == 4
MaxYres == 2
MaxSamples == 4
MaxVal == 1
MaxFineSamples == 3
MaxFineVal == 2
MaxKxres == 4
MaxKyres == 3
MaxKCells == 4
MaxMaskCells == 6
MaxFlips == 2
MaxLen == 5
MaxRowLen == 6

(* A sample read from storage that was never written (g_new() memory). *)
Uninit == -1000

Values == 0 .. MaxVal
FineValues == 0 .. MaxFineVal

(* What an uninitialised double may turn out to be: below, inside or above *)
(* the range of the samples.                                               *)
GarbageVals == {-1, 0, MaxFineVal + 1}

MIN(a, b) == IF a < b THEN a ELSE b
MAX(a, b) == IF a > b THEN a ELSE b

SetMin(S) == CHOOSE m \in S : \A o \in S : m <= o
SetMax(S) == CHOOSE m \in S : \A o \in S : m >= o

----------------------------------------------------------------------------
(* Length-requirement planner. *)

NoLen == [needed |-> FALSE, sublen1 |-> 0, sublen2 |-> 0,
          even_even |-> FALSE, even_odd |-> FALSE]

(* Variant of fill_req_subs that stores the sub-lengths the other way     *)
(* round.                                                                  *)
fill_req_subs_swapped(precomp, sublen1, sublen2, even_odd, even_even) ==
    [precomp EXCEPT !.sublen1 = sublen2, !.sublen2 = sublen1,
                    !.even_even = even_even, !.even_odd = even_odd]

fill_req_subs(precomp, sublen1, sublen2, even_odd, even_even) ==
    [precomp EXCEPT !.sublen1 = sublen1, !.sublen2 = sublen2,
                    !.even_even = even_even, !.even_odd = even_odd]

RECURSIVE find_required_lengths_recursive(_, _, _)
find_required_lengths_recursive(req, blocklen, is_even) ==
    IF is_even
    THEN IF req.even[blocklen].needed
         THEN req
         ELSE LET r0 == [req EXCEPT !.even[blocklen].needed = TRUE]
                  h  == blocklen \div 2
              IN IF blocklen = 2
                 THEN find_required_lengths_recursive(
                          [r0 EXCEPT !.even[blocklen] =
                               fill_req_subs(@, 1, 1, FALSE, FALSE)],
                          1, FALSE)
                 ELSE IF blocklen % 4 = 0
                 THEN find_required_lengths_recursive(
                          [r0 EXCEPT !.even[blocklen] =
                               fill_req_subs(@, h, h, FALSE, TRUE)],
                          h, TRUE)
                 ELSE find_required_lengths_recursive(
                          find_required_lengths_recursive(
                              [r0 EXCEPT !.even[blocklen] =
                                   fill_req_subs(@, h - 1, h + 1, FALSE, TRUE)],
                              h - 1, TRUE),
                          h + 1, TRUE)
    ELSE IF req.each[blocklen].needed
         THEN req
         ELSE LET r0 == [req EXCEPT !.each[blocklen].needed = TRUE]
                  h  == blocklen \div 2
                  range == 1 .. ((blocklen + 1) \div 2 - 1)
                  EE(i) == r0.each[i].needed /\ r0.each[blocklen - i].needed
                  VE(i) == r0.even[i].needed /\ r0.each[blocklen - i].needed
                  EV(i) == r0.each[i].needed /\ r0.even[blocklen - i].needed
              IN IF blocklen = 1
                 THEN r0
                 ELSE IF blocklen % 2 = 0
                 THEN LET hits == {i \in range : EE(i)}
                      IN IF hits # {}
                         THEN [r0 EXCEPT !.each[blocklen] =
                                  fill_req_subs(@, SetMin(hits),
                                                blocklen - SetMin(hits),
                                                FALSE, FALSE)]
                         ELSE find_required_lengths_recursive(
                                  [r0 EXCEPT !.each[blocklen] =
                                       fill_req_subs(@, h, h, FALSE, FALSE)],
                                  h, FALSE)
                 ELSE LET hits == {i \in range : EE(i) \/ VE(i) \/ EV(i)}
                          anys == {i \in range : r0.each[i].needed}
                      IN IF hits # {}
                         THEN LET i == SetMin(hits)
                                  j == blocklen - i
                              IN [r0 EXCEPT !.each[blocklen] =
                                     IF EE(i)
                                     THEN fill_req_subs(@, i, j, FALSE, FALSE)
                                     ELSE IF VE(i)
                                     THEN fill_req_subs(@, i, j, TRUE, FALSE)
                                     ELSE fill_req_subs(@, j, i, TRUE, FALSE)]
                         ELSE IF anys # {}
                         THEN LET any == SetMax(anys)
                              IN find_required_lengths_recursive(
                                     [r0 EXCEPT !.each[blocklen] =
                                          fill_req_subs(@, any, blocklen - any,
                                                        FALSE, FALSE)],
                                     blocklen - any, FALSE)
                         ELSE IF blocklen % 4 = 1
                         THEN find_required_lengths_recursive(
                                  find_required_lengths_recursive(
                                      [r0 EXCEPT !.each[blocklen] =
                                           fill_req_subs(@, h, h + 1, TRUE, FALSE)],
                                      h, TRUE),
                                  h + 1, FALSE)
                         ELSE find_required_lengths_recursive(
                                  find_required_lengths_recursive(
                                      [r0 EXCEPT !.each[blocklen] =
                                           fill_req_subs(@, h + 1, h, TRUE, FALSE)],
                                      h + 1, TRUE),
                                  h, FALSE)

(* qsort() by compare_guint followed by the removal of duplicates: the     *)
(* distinct lengths in ascending order.                                    *)
RECURSIVE SortedDistinct(_)
SortedDistinct(S) ==
    IF S = {} THEN << >>
    ELSE <<SetMin(S)>> \o SortedDistinct(S \ {SetMin(S)})

RECURSIVE PlanLengths(_, _, _)
PlanLengths(req, blens, i) ==
    IF i > Len(blens) THEN req
    ELSE PlanLengths(find_required_lengths_recursive(req, blens[i], FALSE),
                     blens, i + 1)

compare_guint(a, b) == IF a < b THEN -1 ELSE IF a > b THEN 1 ELSE 0

(* One pass of exchanges of neighbours from position i on. *)
RECURSIVE ExchangePass(_, _)
ExchangePass(blens, i) ==
    IF i >= Len(blens) THEN blens
    ELSE IF compare_guint(blens[i], blens[i + 1]) > 0
    THEN ExchangePass([blens EXCEPT ![i] = blens[i + 1],
                                    ![i + 1] = blens[i]], i + 1)
    ELSE ExchangePass(blens, i + 1)

(* Variant of qsort_guint that stops after one pass of exchanges: the      *)
(* largest length ends up last, the others need not be in order.           *)
qsort_guint_one_pass(blens) == ExchangePass(blens, 1)

(* qsort() with compare_guint: the lengths in ascending order, each as     *)
(* often as it occurs.  Position k takes the length v that has fewer than  *)
(* k lengths before it and at least k lengths not after it.                *)
qsort_guint(blens) ==
    [k \in 1 .. Len(blens) |->
        CHOOSE v \in {blens[i] : i \in 1 .. Len(blens)} :
            /\ Cardinality({i \in 1 .. Len(blens) :
                                compare_guint(blens[i], v) < 0}) < k
            /\ Cardinality({i \in 1 .. Len(blens) :
                                compare_guint(blens[i], v) <= 0}) >= k]

(* The loop that keeps blens[0] and every blens[i] > blens[i-1]. *)
RECURSIVE UniqueLengths(_, _, _)
UniqueLengths(blens, i, kept) ==
    IF i > Len(blens) THEN kept
    ELSE UniqueLengths(blens, i + 1,
                       IF blens[i] > blens[i - 1]
                       THEN Append(kept, blens[i]) ELSE kept)

(* The body of find_required_lengths_for_set() past the sorting: the       *)
(* recursion over the distinct lengths, maxlen_even and nbuffers.          *)
PlanDistinctLengths(blens) ==
    LET maxlen == blens[Len(blens)]
        req0   == [each |-> [l \in 1 .. maxlen |-> NoLen],
                   even |-> [l \in 1 .. maxlen |-> NoLen],
                   maxlen_each |-> maxlen, maxlen_even |-> maxlen,
                   nbuffers |-> 0]
        req1   == PlanLengths(req0, blens, 1)
        evens  == {l \in 1 .. maxlen : req1.even[l].needed}
        mle    == IF evens = {} THEN 0 ELSE SetMax(evens)
    IN [req1 EXCEPT !.maxlen_even = mle,
                    !.nbuffers =
                        Cardinality({l \in 1 .. maxlen : req1.each[l].needed})
                        + Cardinality({l \in 2 .. mle : req1.even[l].needed})]

(* The lengths are sorted, the duplicates dropped, the rest planned; each  *)
(* stage is bound once, as the element of a singleton.                     *)
find_required_lengths_for_set(blocklens) ==
    CHOOSE req \in
        {PlanDistinctLengths(blens) :
            blens \in {UniqueLengths(sorted, 2, <<sorted[1]>>) :
                sorted \in {qsort_guint(b) : b \in {blocklens}}}} : TRUE

----------------------------------------------------------------------------
(* Row precompute engine. *)

(* The comparator of the max_ / min_ twins of the compose functions:       *)
(* max keeps sub2 when sub1 < sub2, min keeps sub2 when sub1 > sub2.       *)
(* A comparison that involves a never-written sample has no defined result.*)
Combine(maximum, a, b) ==
    IF a = Uninit \/ b = Uninit THEN Uninit
    ELSE IF maximum THEN (IF a < b THEN b ELSE a)
    ELSE (IF a > b THEN b ELSE a)

(* One storage block of rowlen*nbuffers doubles from g_new(), cut into one *)
(* buffer per needed length; a length that is not needed has no buffer.    *)
(* Variant of min_max_precomputed_row_alloc whose loop over the each-table *)
(* starts at length 2, as the loop over the even-table does.               *)
min_max_precomputed_row_alloc_from_two(req, rowlen, id) ==
    [id   |-> id,
     each |-> [l \in 1 .. req.maxlen_each |->
                  IF l >= 2 /\ req.each[l].needed
                  THEN [k \in 1 .. rowlen |-> Uninit]
                  ELSE << >>],
     even |-> [l \in 1 .. req.maxlen_even |->
                  IF l >= 2 /\ req.even[l].needed
                  THEN [k \in 1 .. rowlen |-> Uninit]
                  ELSE << >>]]

min_max_precomputed_row_alloc(req, rowlen, id) ==
    [id   |-> id,
     each |-> [l \in 1 .. req.maxlen_each |->
                  IF req.each[l].needed THEN [k \in 1 .. rowlen |-> Uninit]
                  ELSE << >>],
     even |-> [l \in 1 .. req.maxlen_even |->
                  IF l >= 2 /\ req.even[l].needed
                  THEN [k \in 1 .. rowlen |-> Uninit]
                  ELSE << >>]]

compose_row_data_each(maximum, target, sub1, sublen1, sub2, sublen2, rowlen) ==
    IF sublen1 + sublen2 > rowlen \/ target = << >> \/ sub1 = << >> \/ sub2 = << >>
    THEN target
    ELSE LET n == rowlen - (sublen1 + sublen2)
         IN [k \in 1 .. rowlen |->
                IF k - 1 <= n
                THEN Combine(maximum, sub1[k], sub2[k + sublen1])
                ELSE target[k]]

(* Variant of compose_row_data_even_odd that reads both phases at the      *)
(* position itself, as the first half of the loop body does.               *)
compose_row_data_even_odd_one_phase(maximum, target, even, evenlen, odd, oddlen, rowlen) ==
    IF evenlen + oddlen > rowlen \/ evenlen % 2 # 0
       \/ target = << >> \/ even = << >> \/ odd = << >>
    THEN target
    ELSE LET n == rowlen - (evenlen + oddlen)
         IN [k \in 1 .. rowlen |->
                IF k - 1 > n THEN target[k]
                ELSE Combine(maximum, even[k], odd[k + evenlen])]

compose_row_data_even_odd(maximum, target, even, evenlen, odd, oddlen, rowlen) ==
    IF evenlen + oddlen > rowlen \/ evenlen % 2 # 0
       \/ target = << >> \/ even = << >> \/ odd = << >>
    THEN target
    ELSE LET n == rowlen - (evenlen + oddlen)
         IN [k \in 1 .. rowlen |->
                IF k - 1 > n THEN target[k]
                ELSE IF (k - 1) % 2 = 0
                THEN Combine(maximum, even[k], odd[k + evenlen])
                ELSE Combine(maximum, even[k + oddlen], odd[k])]

compose_row_data_even(maximum, target, sub1, sublen1, sub2, sublen2, rowlen) ==
    IF sublen1 + sublen2 > rowlen \/ sublen1 % 2 # 0 \/ sublen2 % 2 # 0
       \/ target = << >> \/ sub1 = << >> \/ sub2 = << >>
    THEN target
    ELSE LET n == rowlen - (sublen1 + sublen2)
         IN [k \in 1 .. rowlen |->
                IF k - 1 <= n /\ (k - 1) % 2 = 0
                THEN Combine(maximum, sub1[k], sub2[k + sublen1])
                ELSE target[k]]

compose_row_data_two(maximum, target, one, rowlen) ==
    IF 2 > rowlen \/ target = << >> \/ one = << >>
    THEN target
    ELSE LET n == rowlen - 2
         IN [k \in 1 .. rowlen |->
                IF k - 1 <= n /\ (k - 1) % 2 = 0
                THEN Combine(maximum, one[k], one[k + 1])
                ELSE target[k]]

(* A buffer pointer of the row; << >> stands for NULL and for an index     *)
(* beyond the pointer table.                                               *)
EachBuf(pr, l) == IF l \in DOMAIN pr.each THEN pr.each[l] ELSE << >>
EvenBuf(pr, l) == IF l \in DOMAIN pr.even THEN pr.even[l] ELSE << >>

(* One turn of the loop over blen: Each(blen), then Even(blen). *)
FillEachStep(req, pr, blen, rowlen, maximum) ==
    LET precomp == req.each[blen]
    IN IF ~precomp.needed THEN pr
       ELSE IF precomp.even_odd
       THEN [pr EXCEPT !.each[blen] =
                compose_row_data_even_odd(maximum, @,
                    EvenBuf(pr, precomp.sublen1), precomp.sublen1,
                    EachBuf(pr, precomp.sublen2), precomp.sublen2, rowlen)]
       ELSE [pr EXCEPT !.each[blen] =
                compose_row_data_each(maximum, @,
                    EachBuf(pr, precomp.sublen1), precomp.sublen1,
                    EachBuf(pr, precomp.sublen2), precomp.sublen2, rowlen)]

FillEvenStep(req, pr, blen, rowlen, maximum) ==
    LET precomp == req.even[blen]
    IN IF blen > req.maxlen_even \/ ~precomp.needed THEN pr
       ELSE IF precomp.even_even
       THEN [pr EXCEPT !.even[blen] =
                compose_row_data_even(maximum, @,
                    EvenBuf(pr, precomp.sublen1), precomp.sublen1,
                    EvenBuf(pr, precomp.sublen2), precomp.sublen2, rowlen)]
       ELSE [pr EXCEPT !.even[blen] =
                compose_row_data_two(maximum, @,
                    EachBuf(pr, precomp.sublen1), rowlen)]

RECURSIVE FillFrom(_, _, _, _, _)
FillFrom(req, pr, blen, rowlen, maximum) ==
    IF blen > req.maxlen_each THEN pr
    ELSE FillFrom(req,
                  FillEvenStep(req, FillEachStep(req, pr, blen, rowlen, maximum),
                               blen, rowlen, maximum),
                  blen + 1, rowlen, maximum)

(* max_precomputed_row_fill() and min_precomputed_row_fill(): the two      *)
(* differ in the comparator only.                                          *)
precomputed_row_fill(req, pr, x, rowlen, maximum) ==
    FillFrom(req, [pr EXCEPT !.each[1] = [k \in 1 .. rowlen |-> x[k]]],
             2, rowlen, maximum)

(* The storage block is copied whole; the pointers of the target stay.     *)
min_max_precomputed_row_copy(target, source) ==
    [target EXCEPT !.each = source.each, !.even = source.even]

----------------------------------------------------------------------------
(* Kernel run-length encoding. *)

(* The scan of one mask row: j is the start of the run being collected,    *)
(* l its length so far; the cell looked at is j + l.                       *)
RECURSIVE EncodeRow(_, _, _, _, _)
EncodeRow(mask, i, j, l, segs) ==
    IF j + l < mask.xres
    THEN IF mask.data[i * mask.xres + j + l + 1] # 0
         THEN EncodeRow(mask, i, j, l + 1, segs)
         ELSE IF l # 0
         THEN EncodeRow(mask, i, j + l + 1, 0,
                        Append(segs, [row |-> i, col |-> j, len |-> l]))
         ELSE EncodeRow(mask, i, j + 1, 0, segs)
    ELSE IF l # 0
    THEN Append(segs, [row |-> i, col |-> j, len |-> l])
    ELSE segs

RECURSIVE EncodeRows(_, _, _)
EncodeRows(mask, i, segs) ==
    IF i >= mask.yres THEN segs
    ELSE EncodeRows(mask, i + 1, EncodeRow(mask, i, 0, 0, segs))

(* Variant of run_length_encode_mask without the test after the scan of a *)
(* row: a run that reaches the end of its row is lost.                     *)
run_length_encode_mask_unclosed(mask) ==
    LET Closed(seg) == seg.col + seg.len < mask.xres
    IN SelectSeq(EncodeRows(mask, 0, << >>), Closed)

run_length_encode_mask(mask) == EncodeRows(mask, 0, << >>)

find_required_lengths_for_rle(m) ==
    find_required_lengths_for_set([i \in 1 .. Len(m) |-> m[i].len])

(* Variant of compare_segment that orders by descending row and column. *)
compare_segment_descending(a, b) ==
    IF a.row < b.row THEN 1
    ELSE IF a.row > b.row THEN -1
    ELSE IF a.col < b.col THEN 1
    ELSE IF a.col > b.col THEN -1
    ELSE 0

compare_segment(a, b) ==
    IF a.row < b.row THEN -1
    ELSE IF a.row > b.row THEN 1
    ELSE IF a.col < b.col THEN -1
    ELSE IF a.col > b.col THEN 1
    ELSE 0

(* qsort() with compare_segment: insertion into an ordered list. *)
RECURSIVE SortInsert(_, _)
SortInsert(sorted, seg) ==
    IF sorted = << >> THEN <<seg>>
    ELSE IF compare_segment(seg, Head(sorted)) < 0 THEN <<seg>> \o sorted
    ELSE <<Head(sorted)>> \o SortInsert(Tail(sorted), seg)

RECURSIVE SortSegments(_, _, _)
SortSegments(segs, i, sorted) ==
    IF i > Len(segs) THEN sorted
    ELSE SortSegments(segs, i + 1, SortInsert(sorted, segs[i]))

(* Variant of the flip of one segment that mirrors the rows only. *)
FlipSegmentRowsOnly(seg, kxres, kyres) ==
    [row |-> kyres - 1 - seg.row, col |-> seg.col, len |-> seg.len]

FlipSegment(seg, kxres, kyres) ==
    [row |-> kyres - 1 - seg.row, col |-> kxres - seg.col - seg.len,
     len |-> seg.len]

gwy_data_field_area_rle_flip(m, kxres, kyres) ==
    SortSegments([i \in 1 .. Len(m) |-> FlipSegment(m[i], kxres, kyres)],
                 1, << >>)

----------------------------------------------------------------------------
(* Border extension. *)

RowOf(f, r) == [k \in 1 .. f.xres |-> f.data[r * f.xres + k]]

(* Variant of row_extend_border that pads with the fill value 0.0 handed   *)
(* to it instead of the edge samples.                                      *)
row_extend_fill(in, pos, width, res, extend_left, extend_right) ==
    LET e2r  == MIN(extend_right, res - (pos + width))
        w1   == width + e2r
        er   == extend_right - e2r
        e2l  == MIN(extend_left, pos)
        w2   == w1 + e2l
        el   == extend_left - e2l
        pos1 == pos - e2l
    IN [k \in 1 .. el + w2 + er |->
           IF k - 1 < el THEN 0
           ELSE IF k - 1 < el + w2 THEN in[pos1 + (k - 1 - el) + 1]
           ELSE 0]

(* Variant of row_extend_border that never widens the region: outside it   *)
(* the samples of the region's own ends are repeated.                      *)
row_extend_region_ends(in, pos, width, res, extend_left, extend_right) ==
    [k \in 1 .. extend_left + width + extend_right |->
        IF k - 1 < extend_left THEN in[pos + 1]
        ELSE IF k - 1 < extend_left + width THEN in[pos + (k - 1 - extend_left) + 1]
        ELSE in[pos + width]]

row_extend_border(in, pos, width, res, extend_left, extend_right) ==
    LET e2r  == MIN(extend_right, res - (pos + width))
        w1   == width + e2r
        er   == extend_right - e2r
        e2l  == MIN(extend_left, pos)
        w2   == w1 + e2l
        el   == extend_left - e2l
        pos1 == pos - e2l
    IN [k \in 1 .. el + w2 + er |->
           IF k - 1 < el THEN in[1]
           ELSE IF k - 1 < el + w2 THEN in[pos1 + (k - 1 - el) + 1]
           ELSE in[res]]

----------------------------------------------------------------------------
(* Window sweep executor. *)

(* A read through a buffer pointer; beyond the buffer, or through a NULL   *)
(* pointer, nothing defined is read.                                       *)
BufAt(buf, k) == IF k \in 1 .. Len(buf) THEN buf[k] ELSE Uninit

RECURSIVE FoldSegments(_, _, _, _, _, _)
FoldSegments(m, prows, outrow, width, maximum, s) ==
    IF s > Len(m) THEN outrow
    ELSE LET seg == m[s]
             buf == EachBuf(prows[seg.row + 1], seg.len)
         IN FoldSegments(m, prows,
                [j \in 1 .. width |->
                    Combine(maximum, outrow[j], BufAt(buf, seg.col + j))],
                width, maximum, s + 1)

mask_rle_execute_min_max(m, prows, width, maximum) ==
    LET seg == m[1]
        buf == EachBuf(prows[seg.row + 1], seg.len)
    IN FoldSegments(m, prows, [j \in 1 .. width |-> BufAt(buf, seg.col + j)],
                    width, maximum, 2)

ExtendUp(mmp, maximum) ==
    IF maximum THEN mmp.kyres \div 2 ELSE (mmp.kyres - 1) \div 2
ExtendDown(mmp, maximum) ==
    IF maximum THEN (mmp.kyres - 1) \div 2 ELSE mmp.kyres \div 2
ExtendLeft(mmp, maximum) ==
    IF maximum THEN mmp.kxres \div 2 ELSE (mmp.kxres - 1) \div 2
ExtendRight(mmp, maximum) ==
    IF maximum THEN (mmp.kxres - 1) \div 2 ELSE mmp.kxres \div 2

(* row_extend_border() of image row r followed by the row fill into pr. *)
FillImageRow(dfield, mmp, pr, r, maximum, col, width) ==
    precomputed_row_fill(mmp.req, pr,
        row_extend_border(RowOf(dfield, r), col, width, dfield.xres,
                          ExtendLeft(mmp, maximum), ExtendRight(mmp, maximum)),
        mmp.rowbuflen, maximum)

(* First seeding loop: i = 0 .. extend_down. *)
RECURSIVE SeedDown(_, _, _, _, _, _, _, _)
SeedDown(dfield, mmp, prows, i, maximum, col, row, width) ==
    IF i > ExtendDown(mmp, maximum) THEN prows
    ELSE LET up == ExtendUp(mmp, maximum)
         IN SeedDown(dfield, mmp,
                IF row + i < dfield.yres
                THEN [prows EXCEPT ![i + up + 1] =
                         FillImageRow(dfield, mmp, @, row + i, maximum,
                                      col, width)]
                ELSE [prows EXCEPT ![i + 1] =
                         min_max_precomputed_row_copy(@, prows[i])],
                i + 1, maximum, col, row, width)

(* Second seeding loop: i = 1 .. extend_up. *)
RECURSIVE SeedUp(_, _, _, _, _, _, _, _)
SeedUp(dfield, mmp, prows, i, maximum, col, row, width) ==
    IF i > ExtendUp(mmp, maximum) THEN prows
    ELSE LET ii == ExtendUp(mmp, maximum) - i
         IN SeedUp(dfield, mmp,
                IF i <= row
                THEN [prows EXCEPT ![ii + 1] =
                         FillImageRow(dfield, mmp, @, row - i, maximum,
                                      col, width)]
                ELSE [prows EXCEPT ![ii + 1] =
                         min_max_precomputed_row_copy(@,
                             prows[((ii + 1) % mmp.kyres) + 1])],
                i + 1, maximum, col, row, width)

Seed(dfield, mmp, maximum, col, row, width) ==
    SeedUp(dfield, mmp,
           SeedDown(dfield, mmp, mmp.prows, 0, maximum, col, row, width),
           1, maximum, col, row, width)

(* Variant of Advance that refills prows[kyres-1] where it stands, without *)
(* rotating prows[].                                                       *)
AdvanceInPlace(dfield, mmp, prows, i, maximum, col, row, width) ==
    LET ky == mmp.kyres
        ii == row + i + ExtendDown(mmp, maximum)
    IN IF ii < dfield.yres
       THEN [prows EXCEPT ![ky] =
                FillImageRow(dfield, mmp, @, ii, maximum, col, width)]
       ELSE prows

(* The rotation of prows[] and the precomputation of the new bottom row    *)
(* that precede output row i (i >= 1).                                     *)
Advance(dfield, mmp, prows, i, maximum, col, row, width) ==
    LET ky      == mmp.kyres
        first   == prows[1]
        rotated == [k \in 1 .. ky |-> IF k < ky THEN prows[k + 1] ELSE first]
        ii      == row + i + ExtendDown(mmp, maximum)
    IN IF ii < dfield.yres
       THEN [rotated EXCEPT ![ky] =
                FillImageRow(dfield, mmp, first, ii, maximum, col, width)]
       ELSE [rotated EXCEPT ![ky] =
                min_max_precomputed_row_copy(first, rotated[ky - 1])]

RECURSIVE SweepRows(_, _, _, _, _, _, _, _, _, _)
SweepRows(dfield, mmp, prows, outbuf, i, maximum, col, row, width, height) ==
    LET out1 == outbuf \o mask_rle_execute_min_max(mmp.mrle, prows, width,
                                                   maximum)
    IN IF i + 1 = height
       THEN [outbuf |-> out1, prows |-> prows]
       ELSE SweepRows(dfield, mmp,
                Advance(dfield, mmp, prows, i + 1, maximum, col, row, width),
                out1, i + 1, maximum, col, row, width, height)

(* Returns the filled outbuf and the row buffers as the sweep leaves them. *)
gwy_data_field_area_min_max_execute(dfield, mmp, maximum, col, row, width, height) ==
    SweepRows(dfield, mmp, Seed(dfield, mmp, maximum, col, row, width),
              << >>, 0, maximum, col, row, width, height)

gwy_data_field_area_rle_analyse(kern, width) ==
    LET m   == run_length_encode_mask(kern)
        req == find_required_lengths_for_rle(m)
        rbl == width + kern.xres - 1
    IN [rowbuflen |-> rbl, kxres |-> kern.xres, kyres |-> kern.yres,
        mrle |-> m, req |-> req,
        prows |-> [k \in 1 .. kern.yres |->
                      min_max_precomputed_row_alloc(req, rbl, k)]]

kernel_is_nonempty(kern) ==
    \E i \in 1 .. kern.xres * kern.yres : kern.data[i] # 0

----------------------------------------------------------------------------
(* Morphological operations facade. *)

GWY_MIN_MAX_FILTER_MINIMUM == "minimum"
GWY_MIN_MAX_FILTER_MAXIMUM == "maximum"
GWY_MIN_MAX_FILTER_RANGE == "range"
GWY_MIN_MAX_FILTER_NORMALIZATION == "normalization"
GWY_MIN_MAX_FILTER_OPENING == "opening"
GWY_MIN_MAX_FILTER_CLOSING == "closing"

InArea(xres, i, col, row, width, height) ==
    LET r == (i - 1) \div xres
        c == (i - 1) % xres
    IN r >= row /\ r < row + height /\ c >= col /\ c < col + width

(* Index into outbuf (width samples per row) of sample i of the field. *)
OutIndex(xres, i, col, row, width) ==
    (((i - 1) \div xres) - row) * width + (((i - 1) % xres) - col) + 1

(* The outcomes of reading outbuf: a sample computed from storage that was *)
(* never written can be any value.  The never-written storage of one sweep *)
(* holds one arbitrary value in the model.                                 *)
Resolutions(buf, n) ==
    {[k \in 1 .. n |-> IF buf[k] = Uninit THEN g ELSE buf[k]] :
        g \in (IF \E k \in 1 .. n : buf[k] = Uninit THEN GarbageVals ELSE {0})}

(* The analysis handed to a sweep that follows another sweep of the same   *)
(* MinMaxPrecomputed: the segments are flipped, the row buffers are kept.  *)
FlipAfter(mmp, prows) ==
    [mmp EXCEPT !.mrle = gwy_data_field_area_rle_flip(@, mmp.kxres, mmp.kyres),
                !.prows = prows]

(* Branch MINIMUM / MAXIMUM: the outbuf before it is copied to the field. *)
MinMaxBranch(f, kern, is_max, col, row, width, height) ==
    LET mmp0 == gwy_data_field_area_rle_analyse(kern, width)
        mmp  == IF is_max THEN FlipAfter(mmp0, mmp0.prows) ELSE mmp0
    IN gwy_data_field_area_min_max_execute(f, mmp, is_max,
                                           col, row, width, height).outbuf

(* Branch RANGE / NORMALIZATION: outbuf (minimum) and outbuf2 (maximum). *)
RangeBranch(f, kern, col, row, width, height) ==
    LET mmp == gwy_data_field_area_rle_analyse(kern, width)
        ex1 == gwy_data_field_area_min_max_execute(f, mmp, FALSE,
                                                   col, row, width, height)
        ex2 == gwy_data_field_area_min_max_execute(f, FlipAfter(mmp, ex1.prows),
                                                   TRUE, col, row, width, height)
    IN [outbuf |-> ex1.outbuf, outbuf2 |-> ex2.outbuf]

(* Branch OPENING / CLOSING, the extended area of the first sweep. *)
OpenCloseExtent(f, kern, col, row, width, height) ==
    LET extcol == MAX(0, col - kern.xres \div 2)
        extrow == MAX(0, row - kern.yres \div 2)
    IN [col |-> extcol, row |-> extrow,
        width  |-> MIN(f.xres, col + width + kern.xres \div 2) - extcol,
        height |-> MIN(f.yres, row + height + kern.yres \div 2) - extrow]

(* Branch OPENING / CLOSING, the analysis of the first sweep. *)
OpenCloseAnalysis(kern, is_closing, extwidth) ==
    LET mmp0 == gwy_data_field_area_rle_analyse(kern, extwidth)
    IN IF is_closing THEN FlipAfter(mmp0, mmp0.prows) ELSE mmp0

(* Branch OPENING / CLOSING, the first sweep: tmpfield and the analysis as *)
(* that sweep leaves it.                                                   *)
OpenCloseFirst(f, mmp1, is_closing, ext) ==
    LET ex1 == gwy_data_field_area_min_max_execute(f, mmp1, is_closing,
                   ext.col, ext.row, ext.width, ext.height)
    IN [tmpfield |-> [xres |-> ext.width, yres |-> ext.height,
                      data |-> ex1.outbuf],
        mmp |-> [mmp1 EXCEPT !.prows = ex1.prows]]

(* Branch OPENING / CLOSING, the analysis of the second sweep: kept and    *)
(* flipped when the extended area is the area, made anew otherwise.        *)
OpenCloseReanalysis(first, kern, is_closing, ext, col, row, width, height) ==
    IF ext.col = col /\ ext.row = row
       /\ ext.width = width /\ ext.height = height
    THEN FlipAfter(first.mmp, first.mmp.prows)
    ELSE LET mmp3 == gwy_data_field_area_rle_analyse(kern, width)
         IN IF ~is_closing THEN FlipAfter(mmp3, mmp3.prows) ELSE mmp3

(* Variant of OpenCloseSecond that repeats the operation of the first      *)
(* sweep.                                                                  *)
OpenCloseSecondSameOp(tmpfield, mmp2, is_closing, ext, col, row, width, height) ==
    gwy_data_field_area_min_max_execute(tmpfield, mmp2, is_closing,
        col - ext.col, row - ext.row, width, height).outbuf

(* Branch OPENING / CLOSING, the second sweep: reads tmpfield, fills       *)
(* outbuf.                                                                 *)
OpenCloseSecond(tmpfield, mmp2, is_closing, ext, col, row, width, height) ==
    gwy_data_field_area_min_max_execute(tmpfield, mmp2, ~is_closing,
        col - ext.col, row - ext.row, width, height).outbuf

(* Variant of WriteArea that forgets to advance to the first sample of    *)
(* the area.                                                               *)
WriteAreaAtOrigin(data, xres, col, row, width, height, outbuf) ==
    [i \in 1 .. Len(data) |->
        IF InArea(xres, i, 0, 0, width, height)
        THEN outbuf[OutIndex(xres, i, 0, 0, width)]
        ELSE data[i]]

(* gwy_assign() of outbuf into the area of the field, row by row. *)
WriteArea(data, xres, col, row, width, height, outbuf) ==
    [i \in 1 .. Len(data) |->
        IF InArea(xres, i, col, row, width, height)
        THEN outbuf[OutIndex(xres, i, col, row, width)]
        ELSE data[i]]

(* Variant of NormNum that subtracts the maximum. *)
NormNumFromMax(x, min, max) ==
    IF min = max THEN 1
    ELSE IF max - min > 0 THEN x - max ELSE max - x

(* (x - min)/(max - min) as numerator and positive denominator; 0.5 when   *)
(* min == max.                                                             *)
NormNum(x, min, max) ==
    IF min = max THEN 1
    ELSE IF max - min > 0 THEN x - min ELSE min - x

(* Variant of NormDen without the test min == max. *)
NormDenUnchecked(min, max) ==
    IF max - min > 0 THEN max - min ELSE min - max

NormDen(min, max) ==
    IF min = max THEN 2
    ELSE IF max - min > 0 THEN max - min ELSE min - max

(* Variant of RangeValue with the operands exchanged. *)
RangeValueSwapped(min, max) == min - max

(* The sample the RANGE branch writes: outbuf2 - outbuf. *)
RangeValue(min, max) == max - min

AreaOk(f, col, row, width, height) ==
    col >= 0 /\ row >= 0 /\ width > 0 /\ height > 0
    /\ col + width <= f.xres /\ row + height <= f.yres

----------------------------------------------------------------------------
(* Inputs. *)

Rasters(xres, yres, vals) ==
    {[xres |-> xres, yres |-> yres, data |-> d] :
        d \in [1 .. xres * yres -> vals]}

Shapes(maxx, maxy, maxcells) ==
    {s \in (1 .. maxx) \X (1 .. maxy) : s[1] * s[2] <= maxcells}

(* Fields of up to MaxSamples samples over Values, and the smaller fields   *)
(* of up to MaxFineSamples samples over the wider FineValues.              *)
Fields ==
    UNION ({Rasters(s[1], s[2], Values) :
               s \in Shapes(MaxXres, MaxYres, MaxSamples)}
           \cup {Rasters(s[1], s[2], FineValues) :
                    s \in Shapes(MaxXres, MaxYres, MaxFineSamples)})

(* A kernel as gwy_data_field_grains_autocrop() leaves it when it is not   *)
(* empty: the first and last row and column each hold a nonzero cell.      *)
IsCropped(k) ==
    /\ \E c \in 1 .. k.xres : k.data[c] # 0
    /\ \E c \in 1 .. k.xres : k.data[(k.yres - 1) * k.xres + c] # 0
    /\ \E r \in 0 .. k.yres - 1 : k.data[r * k.xres + 1] # 0
    /\ \E r \in 0 .. k.yres - 1 : k.data[r * k.xres + k.xres] # 0

Kernels ==
    UNION {{k \in Rasters(s[1], s[2], {0, 1}) : IsCropped(k)} :
              s \in Shapes(MaxKxres, MaxKyres, MaxKCells)}

(* Any mask, cropped or not, empty or not. *)
Masks ==
    UNION {Rasters(s[1], s[2], {0, 1}) :
              s \in Shapes(MaxKxres, MaxKyres, MaxMaskCells)}

(* The scenario of the testable properties: one row, flat kernel of three. *)
ScenarioField == [xres |-> 5, yres |-> 1, data |-> <<3, 1, 4, 1, 5>>]
ScenarioKernel == [xres |-> 3, yres |-> 1, data |-> <<1, 1, 1>>]

NoArea == [col |-> 0, row |-> 0, width |-> 0, height |-> 0]
NoRow == [id |-> 0, each |-> << >>, even |-> << >>]
NoRaster == [xres |-> 0, yres |-> 0, data |-> << >>]
NoEntry == [analyse |-> 0, execute |-> 0]
NoAsf == [radius |-> 0, closing |-> FALSE]
NoPlan == [each |-> << >>, even |-> << >>, maxlen_each |-> 0,
           maxlen_even |-> 0, nbuffers |-> 0]

Areas(f) ==
    {a \in [col : 0 .. f.xres - 1, row : 0 .. f.yres - 1,
            width : 1 .. f.xres, height : 1 .. f.yres] :
        a.col + a.width <= f.xres /\ a.row + a.height <= f.yres}

LengthLists == {SortedDistinct(S) : S \in (SUBSET (1 .. MaxLen)) \ {{}}}

Rows(minlen) ==
    UNION {[1 .. n -> Values] : n \in minlen .. MaxRowLen}

----------------------------------------------------------------------------
(* Operations. *)

IdleCall ==
    /\ calls = 0 /\ op = "none" /\ area = NoArea
    /\ outmin = << >> /\ outmax = << >>
    /\ entered = NoEntry
    /\ asf = NoAsf
IdleRle == /\ mrle = << >> /\ flips = 0
IdleSweep == window = << >> /\ sweeprow = 0
IdleRow ==
    /\ lens = << >> /\ xrow = << >> /\ prow = NoRow /\ ismax = FALSE
    /\ plan = NoPlan
    /\ IdleSweep

(* A field and a cropped kernel, no call made yet. *)
Init ==
    /\ \/ field \in Fields /\ kernel \in Kernels
       \/ field = ScenarioField /\ kernel = ScenarioKernel
    /\ den = [i \in 1 .. Len(field.data) |-> 1]
    /\ before = field.data
    /\ IdleCall
    /\ IdleRle
    /\ IdleRow

(* gwy_data_field_area_filter_min_max_real(), MINIMUM and MAXIMUM. *)
FilterMinMax(kern, filtertype, a) ==
    /\ filtertype \in {GWY_MIN_MAX_FILTER_MINIMUM, GWY_MIN_MAX_FILTER_MAXIMUM}
    /\ AreaOk(field, a.col, a.row, a.width, a.height)
    /\ LET is_max == (filtertype = GWY_MIN_MAX_FILTER_MAXIMUM)
       IN \E raw \in {MinMaxBranch(field, kern, is_max,
                                   a.col, a.row, a.width, a.height)} :
          \E outbuf \in Resolutions(raw, Len(raw)) :
              /\ field' = [field EXCEPT !.data =
                              WriteArea(@, field.xres, a.col, a.row,
                                        a.width, a.height, outbuf)]
              /\ outmin' = IF is_max THEN << >> ELSE outbuf
              /\ outmax' = IF is_max THEN outbuf ELSE << >>
    /\ op' = filtertype
    /\ area' = a
    /\ before' = field.data
    /\ calls' = calls + 1
    /\ entered' = [analyse |-> 1, execute |-> 1]
    /\ UNCHANGED <<den, kernel, mrle, flips, lens, xrow, prow, ismax, asf, plan,
                   window, sweeprow>>

(* gwy_data_field_area_filter_min_max_real(), RANGE and NORMALIZATION. *)
FilterRangeNorm(kern, filtertype, a) ==
    /\ filtertype \in {GWY_MIN_MAX_FILTER_RANGE,
                       GWY_MIN_MAX_FILTER_NORMALIZATION}
    /\ AreaOk(field, a.col, a.row, a.width, a.height)
    /\ LET inA(i) == InArea(field.xres, i, a.col, a.row, a.width, a.height)
           at(i)  == OutIndex(field.xres, i, a.col, a.row, a.width)
       IN \E raw \in {RangeBranch(field, kern,
                                  a.col, a.row, a.width, a.height)} :
          \E outbuf \in Resolutions(raw.outbuf, Len(raw.outbuf)),
             outbuf2 \in Resolutions(raw.outbuf2, Len(raw.outbuf2)) :
              /\ outmin' = outbuf
              /\ outmax' = outbuf2
              /\ IF filtertype = GWY_MIN_MAX_FILTER_RANGE
                 THEN /\ field' = [field EXCEPT !.data =
                             [i \in 1 .. Len(@) |->
                                 IF inA(i)
                                 THEN RangeValue(outbuf[at(i)], outbuf2[at(i)])
                                 ELSE @[i]]]
                      /\ den' = den
                 ELSE /\ field' = [field EXCEPT !.data =
                             [i \in 1 .. Len(@) |->
                                 IF inA(i)
                                 THEN NormNum(@[i], outbuf[at(i)], outbuf2[at(i)])
                                 ELSE @[i]]]
                      /\ den' = [i \in 1 .. Len(den) |->
                                 IF inA(i)
                                 THEN NormDen(outbuf[at(i)], outbuf2[at(i)])
                                 ELSE den[i]]
    /\ op' = filtertype
    /\ area' = a
    /\ before' = field.data
    /\ calls' = calls + 1
    /\ entered' = [analyse |-> 1, execute |-> 2]
    /\ UNCHANGED <<kernel, mrle, flips, lens, xrow, prow, ismax, asf, plan,
                   window, sweeprow>>

(* gwy_data_field_area_filter_min_max_real(), OPENING and CLOSING. *)
FilterOpenClose(kern, filtertype, a) ==
    /\ filtertype \in {GWY_MIN_MAX_FILTER_OPENING, GWY_MIN_MAX_FILTER_CLOSING}
    /\ AreaOk(field, a.col, a.row, a.width, a.height)
    /\ LET is_closing == (filtertype = GWY_MIN_MAX_FILTER_CLOSING)
       IN \E ext \in {OpenCloseExtent(field, kern,
                                     a.col, a.row, a.width, a.height)} :
          \E mmp1 \in {OpenCloseAnalysis(kern, is_closing, ext.width)} :
          \E first \in {OpenCloseFirst(field, mmp1, is_closing, ext)} :
          \E mmp2 \in {OpenCloseReanalysis(first, kern, is_closing, ext,
                                          a.col, a.row, a.width, a.height)} :
          \E raw \in {OpenCloseSecond(first.tmpfield, mmp2, is_closing, ext,
                                      a.col, a.row, a.width, a.height)} :
          \E outbuf \in Resolutions(raw, Len(raw)) :
              /\ field' = [field EXCEPT !.data =
                              WriteArea(@, field.xres, a.col, a.row,
                                        a.width, a.height, outbuf)]
              /\ outmin' = IF is_closing THEN outbuf ELSE first.tmpfield.data
              /\ outmax' = IF is_closing THEN first.tmpfield.data ELSE outbuf
              /\ entered' = [analyse |-> IF ext = a THEN 1 ELSE 2,
                             execute |-> 2]
    /\ op' = filtertype
    /\ area' = a
    /\ before' = field.data
    /\ calls' = calls + 1
    /\ UNCHANGED <<den, kernel, mrle, flips, lens, xrow, prow, ismax, asf, plan,
                   window, sweeprow>>

MinMaxCall ==
    \E a \in Areas(field) :
        \E ft \in {GWY_MIN_MAX_FILTER_MINIMUM, GWY_MIN_MAX_FILTER_MAXIMUM} :
            FilterMinMax(kernel, ft, a)
RangeNormCall ==
    \E a \in Areas(field) :
        \E ft \in {GWY_MIN_MAX_FILTER_RANGE, GWY_MIN_MAX_FILTER_NORMALIZATION} :
            FilterRangeNorm(kernel, ft, a)
OpenCloseCall ==
    \E a \in Areas(field) :
        \E ft \in {GWY_MIN_MAX_FILTER_OPENING, GWY_MIN_MAX_FILTER_CLOSING} :
            FilterOpenClose(kernel, ft, a)

(* The caller repeats the opening or closing it has just made. *)
RepeatCall == FilterOpenClose(kernel, op, area)

(* One minimum or maximum filter call on a fresh field. *)
Next == calls = 0 /\ MinMaxCall
Spec == Init /\ [][Next]_vars

(* One range or normalization call on a fresh field. *)
NextRange == calls = 0 /\ RangeNormCall
SpecRange == Init /\ [][NextRange]_vars

(* An opening or closing, then the same call once more. *)
NextTwice ==
    \/ calls = 0 /\ OpenCloseCall
    \/ calls = 1 /\ RepeatCall
SpecTwice == Init /\ [][NextTwice]_vars

----------------------------------------------------------------------------
(* The encoder and the flip on their own. *)

InitRle ==
    /\ kernel \in Masks
    /\ field = NoRaster /\ den = << >> /\ before = << >>
    /\ IdleCall
    /\ IdleRle
    /\ IdleRow

(* run_length_encode_mask(); before keeps the list as encoded. *)
Encode ==
    /\ calls = 0
    /\ mrle' = run_length_encode_mask(kernel)
    /\ before' = mrle'
    /\ calls' = 1
    /\ UNCHANGED <<field, den, kernel, op, area, outmin, outmax, flips,
                   lens, xrow, prow, ismax, entered, asf, plan,
                   window, sweeprow>>

(* gwy_data_field_area_rle_flip(). *)
Flip ==
    /\ calls = 1
    /\ flips < MaxFlips
    /\ mrle' = gwy_data_field_area_rle_flip(mrle, kernel.xres, kernel.yres)
    /\ flips' = flips + 1
    /\ UNCHANGED <<field, den, kernel, calls, op, area, before, outmin, outmax,
                   lens, xrow, prow, ismax, entered, asf, plan,
                   window, sweeprow>>

NextRle == Encode \/ Flip
SpecRle == InitRle /\ [][NextRle]_vars

----------------------------------------------------------------------------
(* The planner and one row fill on their own. *)

InitRow ==
    /\ lens \in LengthLists
    /\ xrow \in Rows(lens[Len(lens)])
    /\ prow = NoRow
    /\ ismax = FALSE
    /\ plan = NoPlan
    /\ IdleSweep
    /\ field = NoRaster /\ den = << >> /\ before = << >> /\ kernel = NoRaster
    /\ IdleCall
    /\ IdleRle

(* find_required_lengths_for_set(), min_max_precomputed_row_alloc() and    *)
(* min_precomputed_row_fill() or max_precomputed_row_fill().               *)
RowFill(maximum) ==
    /\ calls = 0
    /\ \E req \in {find_required_lengths_for_set(lens)} :
           /\ plan' = req
           /\ prow' = precomputed_row_fill(req,
                          min_max_precomputed_row_alloc(req, Len(xrow), 1),
                          xrow, Len(xrow), maximum)
    /\ ismax' = maximum
    /\ calls' = 1
    /\ UNCHANGED <<field, den, kernel, op, area, before, outmin, outmax,
                   mrle, flips, lens, xrow, entered, asf, window, sweeprow>>

NextRow == \E maximum \in BOOLEAN : RowFill(maximum)
SpecRow == InitRow /\ [][NextRow]_vars

----------------------------------------------------------------------------
(* Brute-force reference: border-extended minimum and maximum computed     *)
(* sample by sample from the kernel cells.                                 *)

Clamp(v, lo, hi) == IF v < lo THEN lo ELSE IF v > hi THEN hi ELSE v

(* Nonzero cells of a kernel as <<row, column>>, zero-based. *)
KernelCells(k) ==
    {rc \in (0 .. k.yres - 1) \X (0 .. k.xres - 1) :
        k.data[rc[1] * k.xres + rc[2] + 1] # 0}

Sample(data, xres, yres, r, c) ==
    data[Clamp(r, 0, yres - 1) * xres + Clamp(c, 0, xres - 1) + 1]

ErosionRef(data, xres, yres, k, r, c) ==
    SetMin({Sample(data, xres, yres,
                   r - (k.yres - 1) \div 2 + rc[1],
                   c - (k.xres - 1) \div 2 + rc[2]) : rc \in KernelCells(k)})

DilationRef(data, xres, yres, k, r, c) ==
    SetMax({Sample(data, xres, yres,
                   r + (k.yres - 1) \div 2 - rc[1],
                   c + (k.xres - 1) \div 2 - rc[2]) : rc \in KernelCells(k)})

(* Indices into field.data of the samples of the processed area. *)
AreaSamples ==
    {i \in 1 .. Len(field.data) :
        InArea(field.xres, i, area.col, area.row, area.width, area.height)}
RowOfSample(i) == (i - 1) \div field.xres
ColOfSample(i) == (i - 1) % field.xres
AtOut(i) == OutIndex(field.xres, i, area.col, area.row, area.width)
FullField ==
    /\ area.col = 0 /\ area.row = 0
    /\ area.width = field.xres /\ area.height = field.yres

(* The seeding loops of the sweep give every row buffer a source: the      *)
(* kernel has fewer than three rows, or the image row extend_down below    *)
(* the first row of the swept area exists.                                 *)
SeedCovered(kyres, row, yres) == kyres <= 2 \/ row + kyres \div 2 < yres

----------------------------------------------------------------------------
(* Claims. *)

(* C1: after the minimum filter every sample (r,c) of the area equals the  *)
(* minimum, over the nonzero kernel cells (kr,kc), of the original sample  *)
(* at row clamp(r - (kyres-1)/2 + kr) and column clamp(c - (kxres-1)/2 +   *)
(* kc), for every field, cropped non-empty kernel and valid area.          *)
C1_ErosionMatchesBruteForce ==
    (calls = 1 /\ op = GWY_MIN_MAX_FILTER_MINIMUM) =>
        \A i \in AreaSamples :
            field.data[i] = ErosionRef(before, field.xres, field.yres, kernel,
                                       RowOfSample(i), ColOfSample(i))

(* C2: after the maximum filter every sample (r,c) of the area equals the  *)
(* maximum, over the nonzero kernel cells (kr,kc), of the original sample  *)
(* at row clamp(r + (kyres-1)/2 - kr) and column clamp(c + (kxres-1)/2 -   *)
(* kc), for every field, cropped non-empty kernel and valid area.          *)
C2_DilationMatchesBruteForce ==
    (calls = 1 /\ op = GWY_MIN_MAX_FILTER_MAXIMUM) =>
        \A i \in AreaSamples :
            field.data[i] = DilationRef(before, field.xres, field.yres, kernel,
                                        RowOfSample(i), ColOfSample(i))

(* The plan of the row-fill run and the true extremum of a block of xrow. *)
RowPlan == find_required_lengths_for_set(lens)
BlockExtremum(i, l) ==
    LET block == {xrow[j + 1] : j \in i .. i + l - 1}
    IN IF ismax THEN SetMax(block) ELSE SetMin(block)

(* C3: after a row fill with the min (resp. max) comparator over a row x   *)
(* of length rowlen, for every length L needed in the plan's each-table    *)
(* and every start i with 0 <= i <= rowlen - L, each[L][i] is the minimum  *)
(* (resp. maximum) of x[i .. i+L-1]; for every plan made from a set of     *)
(* lengths whose largest is at most rowlen.                                *)
C3_SlidingWindowCorrect ==
    calls = 1 =>
        \A l \in 1 .. RowPlan.maxlen_each :
            RowPlan.each[l].needed =>
                \A i \in 0 .. Len(xrow) - l :
                    prow.each[l][i + 1] = BlockExtremum(i, l)

(* A fill whose plan builds a length from an even-position buffer and an   *)
(* odd length, on a row where that length's extrema differ.                *)
C3_Witness ==
    /\ calls = 1
    /\ \E l \in 1 .. RowPlan.maxlen_each :
           /\ RowPlan.each[l].needed
           /\ RowPlan.each[l].even_odd
           /\ Len(xrow) > l + 1
           /\ prow.each[l][1] # prow.each[l][2]

(* C4: on the one-row field [3, 1, 4, 1, 5] with the flat kernel of one    *)
(* row and three columns over the full field, the minimum filter yields    *)
(* [1, 1, 1, 1, 1] and the maximum filter yields [3, 4, 4, 5, 5].          *)
C4_Scenario ==
    (calls = 1 /\ before = ScenarioField.data /\ kernel = ScenarioKernel
     /\ FullField) =>
        /\ op = GWY_MIN_MAX_FILTER_MINIMUM => field.data = <<1, 1, 1, 1, 1>>
        /\ op = GWY_MIN_MAX_FILTER_MAXIMUM => field.data = <<3, 4, 4, 5, 5>>

(* The maximum filter has run on the scenario over the full field. *)
C4_Witness ==
    /\ calls = 1 /\ op = GWY_MIN_MAX_FILTER_MAXIMUM
    /\ before = <<3, 1, 4, 1, 5>> /\ kernel = ScenarioKernel
    /\ area = [col |-> 0, row |-> 0, width |-> 5, height |-> 1]
    /\ outmax = <<3, 4, 4, 5, 5>>

(* The cell of the kernel that both sweeps take as the origin is nonzero. *)
CentreSet(k) ==
    k.data[((k.yres - 1) \div 2) * k.xres + (k.xres - 1) \div 2 + 1] # 0

C7_FlatNeighbourhoodHalf ==
    (calls = 1 /\ op = GWY_MIN_MAX_FILTER_NORMALIZATION) =>
        \A i \in AreaSamples :
            /\ den[i] # 0
            /\ outmin[AtOut(i)] = outmax[AtOut(i)] =>
                   field.data[i] = 1 /\ den[i] = 2

(* A NORMALIZATION call that meets a flat neighbourhood and a non-flat one. *)
C7_Witness ==
    /\ calls = 1 /\ op = GWY_MIN_MAX_FILTER_NORMALIZATION
    /\ \E i, j \in AreaSamples :
           /\ outmin[AtOut(i)] = outmax[AtOut(i)]
           /\ field.data[i] = 1 /\ den[i] = 2
           /\ outmin[AtOut(j)] # outmax[AtOut(j)]

(* Every cell of the kernel is nonzero. *)
FilledKernel(k) == \A i \in 1 .. k.xres * k.yres : k.data[i] # 0

C9_FlipTwiceIsIdentity ==
    flips = 2 => mrle = before

(* A list of at least three segments that one flip changes and two flips   *)
(* have restored.                                                          *)
C9_Witness ==
    /\ flips = 2
    /\ Len(mrle) >= 3
    /\ gwy_data_field_area_rle_flip(mrle, kernel.xres, kernel.yres) # mrle

(* The 180-degree rotation of the negated raster. *)
NegRot(data) == [i \in 1 .. Len(data) |-> 0 - data[Len(data) + 1 - i]]

(* C10: over the full field, for odd and even kernel extents alike, the    *)
(* maximum filter of x equals the 180-degree rotation of the negated       *)
(* minimum filter of the negated, rotated x.                               *)
C10_ErosionDilationDuality ==
    (calls = 1 /\ op = GWY_MIN_MAX_FILTER_MAXIMUM /\ FullField) =>
        LET n == Len(before)
            e == MinMaxBranch([field EXCEPT !.data = NegRot(before)], kernel,
                              FALSE, 0, 0, field.xres, field.yres)
        IN \A i \in 1 .. n : field.data[i] = 0 - e[n + 1 - i]

(* The kernel has an even extent along an axis. *)
EvenExtent(k) == k.xres % 2 = 0 \/ k.yres % 2 = 0

(* The samples of a window that reaches `before` samples toward the        *)
(* top-left corner and `after` samples toward the bottom-right one, along  *)
(* each axis, border-extended.                                             *)
WindowSamples(data, xres, yres, r, c, upb, downb, leftb, rightb) ==
    {Sample(data, xres, yres, rr, cc) :
        rr \in r - upb .. r + downb, cc \in c - leftb .. c + rightb}

(* C11: for a kernel with an even extent along an axis, the neighbourhood  *)
(* of the minimum filter reaches one sample farther toward the top-left    *)
(* corner than toward the bottom-right one, and the neighbourhood of the   *)
(* maximum filter one sample farther toward the bottom-right corner.       *)
C11_EvenKernelDirection ==
    (calls = 1 /\ FilledKernel(kernel) /\ EvenExtent(kernel)) =>
        \A i \in AreaSamples :
            /\ op = GWY_MIN_MAX_FILTER_MINIMUM =>
                   field.data[i] =
                       SetMin(WindowSamples(before, field.xres, field.yres,
                                  RowOfSample(i), ColOfSample(i),
                                  kernel.yres \div 2, (kernel.yres - 1) \div 2,
                                  kernel.xres \div 2, (kernel.xres - 1) \div 2))
            /\ op = GWY_MIN_MAX_FILTER_MAXIMUM =>
                   field.data[i] =
                       SetMax(WindowSamples(before, field.xres, field.yres,
                                  RowOfSample(i), ColOfSample(i),
                                  (kernel.yres - 1) \div 2, kernel.yres \div 2,
                                  (kernel.xres - 1) \div 2, kernel.xres \div 2))

(* The minimum or maximum filter applied to the entire field f: the field  *)
(* with the outbuf of the sweep copied over all its samples.               *)
FullFieldFilter(f, kern, is_max) ==
    [f EXCEPT !.data = MinMaxBranch(f, kern, is_max, 0, 0, f.xres, f.yres)]

(* Erosion then dilation (opening), or dilation then erosion (closing),    *)
(* both on the entire field.                                               *)
FullFieldOpenClose(f, kern, is_closing) ==
    FullFieldFilter(FullFieldFilter(f, kern, is_closing), kern, ~is_closing)

(* C12: opening (closing) of an area writes into the area the samples that *)
(* erosion then dilation (dilation then erosion) of the entire field give  *)
(* there.                                                                  *)
C12_OpenCloseAsOnEntireField ==
    calls >= 1 =>
        LET whole == FullFieldOpenClose([field EXCEPT !.data = before], kernel,
                                        op = GWY_MIN_MAX_FILTER_CLOSING)
        IN \A i \in AreaSamples : field.data[i] = whole.data[i]

----------------------------------------------------------------------------
(* The public entry points: gwy_data_field_area_filter_min_max() and       *)
(* gwy_data_field_area_filter_disc_asf().                                  *)

MaxEntryXres == 2
MaxEntryKxres == 2
MaxEntryKCells == 2
MaxRadius == 1

FilterTypes ==
    {GWY_MIN_MAX_FILTER_MINIMUM, GWY_MIN_MAX_FILTER_MAXIMUM,
     GWY_MIN_MAX_FILTER_RANGE, GWY_MIN_MAX_FILTER_NORMALIZATION,
     GWY_MIN_MAX_FILTER_OPENING, GWY_MIN_MAX_FILTER_CLOSING}
DISC_ASF == "disc_asf"

(* Rows and columns of a kernel that hold a nonzero cell. *)
GrainRows(k) ==
    {r \in 0 .. k.yres - 1 :
        \E c \in 0 .. k.xres - 1 : k.data[r * k.xres + c + 1] # 0}
GrainCols(k) ==
    {c \in 0 .. k.xres - 1 :
        \E r \in 0 .. k.yres - 1 : k.data[r * k.xres + c + 1] # 0}

(* The rectangle of rows r0 .. r1 and columns c0 .. c1 of a kernel. *)
CropTo(k, r0, r1, c0, c1) ==
    [xres |-> c1 - c0 + 1, yres |-> r1 - r0 + 1,
     data |-> [i \in 1 .. (c1 - c0 + 1) * (r1 - r0 + 1) |->
                  k.data[(r0 + (i - 1) \div (c1 - c0 + 1)) * k.xres
                         + c0 + ((i - 1) % (c1 - c0 + 1)) + 1]]]

(* gwy_data_field_grains_autocrop(): the tightest rectangle that holds all *)
(* nonzero cells.  A kernel without nonzero cell comes back as it is or    *)
(* without any cell.                                                       *)
gwy_data_field_grains_autocrop(k) ==
    IF GrainRows(k) = {}
    THEN {k, NoRaster}
    ELSE {CropTo(k, SetMin(GrainRows(k)), SetMax(GrainRows(k)),
                 SetMin(GrainCols(k)), SetMax(GrainCols(k)))}

(* gwy_data_field_elliptic_area_fill() over a whole square kernel: the     *)
(* cells whose centre lies in the inscribed disc are 1.                    *)
DiscKernel(size) ==
    [xres |-> size, yres |-> size,
     data |-> [i \in 1 .. size * size |->
                  LET y == 2 * ((i - 1) \div size) + 1 - size
                      x == 2 * ((i - 1) % size) + 1 - size
                  IN IF x * x + y * y <= size * size THEN 1 ELSE 0]]

(* Binary fields of up to MaxEntryXres columns. *)
EntryFields ==
    UNION {Rasters(s[1], s[2], Values) :
              s \in Shapes(MaxEntryXres, MaxYres, MaxSamples)}

(* Kernels as a caller hands them over: cropped or not, empty or not. *)
EntryKernels ==
    UNION {Rasters(s[1], s[2], {0, 1}) :
              s \in Shapes(MaxEntryKxres, MaxKyres, MaxEntryKCells)}

(* Areas that break one condition of the precondition each. *)
BadAreas(f) ==
    {[col |-> -1, row |-> 0, width |-> 1, height |-> 1],
     [col |-> 0, row |-> -1, width |-> 1, height |-> 1],
     [col |-> 0, row |-> 0, width |-> 0, height |-> 1],
     [col |-> 0, row |-> 0, width |-> 1, height |-> 0],
     [col |-> f.xres, row |-> 0, width |-> 1, height |-> 1],
     [col |-> 0, row |-> f.yres, width |-> 1, height |-> 1]}

Requests(f) == Areas(f) \cup BadAreas(f)

InitEntry ==
    /\ field \in EntryFields
    /\ kernel \in EntryKernels
    /\ den = [i \in 1 .. Len(field.data) |-> 1]
    /\ before = field.data
    /\ IdleCall
    /\ IdleRle
    /\ IdleRow

(* Variant of Return that clears the field on its way out. *)
ReturnCleared(filtertype, a) ==
    /\ op' = filtertype
    /\ area' = a
    /\ before' = field.data
    /\ calls' = calls + 1
    /\ entered' = NoEntry
    /\ field' = [field EXCEPT !.data = [i \in 1 .. Len(@) |-> 0]]
    /\ UNCHANGED <<den, kernel, outmin, outmax, mrle, flips,
                   lens, xrow, prow, ismax, asf, plan, window, sweeprow>>

(* The call returns without having entered the analysis or a sweep. *)
Return(filtertype, a) ==
    /\ op' = filtertype
    /\ area' = a
    /\ before' = field.data
    /\ calls' = calls + 1
    /\ entered' = NoEntry
    /\ UNCHANGED <<field, den, kernel, outmin, outmax, mrle, flips,
                   lens, xrow, prow, ismax, asf, plan, window, sweeprow>>

(* Variant of RejectArea that clears the field before it returns. *)
RejectAreaCleared(filtertype, a) ==
    /\ ~AreaOk(field, a.col, a.row, a.width, a.height)
    /\ ReturnCleared(filtertype, a)

(* g_return_if_fail() of the area. *)
RejectArea(filtertype, a) ==
    /\ ~AreaOk(field, a.col, a.row, a.width, a.height)
    /\ Return(filtertype, a)

gwy_data_field_area_filter_min_max_real(kern, filtertype, a) ==
    \/ RejectArea(filtertype, a)
    \/ FilterMinMax(kern, filtertype, a)
    \/ FilterRangeNorm(kern, filtertype, a)
    \/ FilterOpenClose(kern, filtertype, a)

(* The kernel is duplicated and cropped; the filter runs when the cropped  *)
(* kernel is not empty.                                                    *)
gwy_data_field_area_filter_min_max(kern, filtertype, a) ==
    \E redkernel \in gwy_data_field_grains_autocrop(kern) :
        IF kernel_is_nonempty(redkernel)
        THEN gwy_data_field_area_filter_min_max_real(redkernel, filtertype, a)
        ELSE Return(filtertype, a)

(* One opening or closing of the alternating sequential filter: the        *)
(* fields it can leave and how often it entered the analysis.  Each stage  *)
(* is bound once, as an element of a singleton.                            *)
OpenCloseOutcomes(f, kern, is_closing, a) ==
    UNION {UNION {UNION {UNION {
        {[f |-> [f EXCEPT !.data = WriteArea(@, f.xres, a.col, a.row,
                                             a.width, a.height, outbuf)],
          analyse |-> IF ext = a THEN 1 ELSE 2] :
            outbuf \in Resolutions(raw, Len(raw))} :
        raw \in {OpenCloseSecond(first.tmpfield, mmp2, is_closing, ext,
                                 a.col, a.row, a.width, a.height)}} :
        mmp2 \in {OpenCloseReanalysis(first, kern, is_closing, ext,
                                      a.col, a.row, a.width, a.height)}} :
        first \in {OpenCloseFirst(f, OpenCloseAnalysis(kern, is_closing,
                                                       ext.width),
                                  is_closing, ext)}} :
        ext \in {OpenCloseExtent(f, kern, a.col, a.row, a.width, a.height)}}

(* One opening or closing of the loop applied to every outcome reached so  *)
(* far; an outcome is [f, analyse, execute].                               *)
AsfStep(outs, disc, is_closing, a) ==
    UNION {{[f |-> o.f, analyse |-> w.analyse + o.analyse,
             execute |-> w.execute + 2] :
               o \in OpenCloseOutcomes(w.f, disc, is_closing, a)} :
              w \in outs}

(* Variant of AsfLoop that starts at r = 0, with the disc of one cell. *)
AsfLoopFromZero(f, radius, closing, a) ==
    LET outs[n \in 0 .. 2 * MAX(radius + 1, 0)] ==
            IF n = 0
            THEN {[f |-> f, analyse |-> 0, execute |-> 0]}
            ELSE AsfStep(outs[n - 1], DiscKernel(2 * ((n + 1) \div 2) - 1),
                         IF n % 2 = 1 THEN ~closing ELSE closing, a)
    IN outs[2 * MAX(radius + 1, 0)]

(* The loop of gwy_data_field_area_filter_disc_asf(): two calls of the     *)
(* filter for each r = 1 .. radius with the disc of size 2r + 1,           *)
(* filtertype1 then filtertype2; outs[n] are the outcomes after n calls.   *)
AsfLoop(f, radius, closing, a) ==
    LET outs[n \in 0 .. 2 * MAX(radius, 0)] ==
            IF n = 0
            THEN {[f |-> f, analyse |-> 0, execute |-> 0]}
            ELSE AsfStep(outs[n - 1], DiscKernel(2 * ((n + 1) \div 2) + 1),
                         IF n % 2 = 1 THEN ~closing ELSE closing, a)
    IN outs[2 * MAX(radius, 0)]

gwy_data_field_area_filter_disc_asf(radius, closing, a) ==
    /\ asf' = [radius |-> radius, closing |-> closing]
    /\ op' = DISC_ASF
    /\ area' = a
    /\ before' = field.data
    /\ calls' = calls + 1
    /\ IF ~AreaOk(field, a.col, a.row, a.width, a.height)
       THEN /\ entered' = NoEntry
            /\ field' = field
       ELSE \E out \in AsfLoop(field, radius, closing, a) :
                /\ field' = out.f
                /\ entered' = [analyse |-> out.analyse,
                               execute |-> out.execute]
    /\ UNCHANGED <<den, kernel, outmin, outmax, mrle, flips,
                   lens, xrow, prow, ismax, plan, window, sweeprow>>

MinMaxEntryCall ==
    \E a \in Requests(field) : \E ft \in FilterTypes :
        gwy_data_field_area_filter_min_max(kernel, ft, a)

DiscAsfCall ==
    \E a \in Requests(field) :
        \E radius \in -1 .. MaxRadius : \E closing \in BOOLEAN :
            gwy_data_field_area_filter_disc_asf(radius, closing, a)

(* One call of an entry point on a fresh field. *)
NextEntry ==
    \/ calls = 0 /\ MinMaxEntryCall
    \/ calls = 0 /\ DiscAsfCall
SpecEntry == InitEntry /\ [][NextEntry]_vars

----------------------------------------------------------------------------
(* Properties of the entry points.                                         *)

(* C13: with a kernel that has no nonzero cell,                            *)
(* gwy_data_field_area_filter_min_max() leaves every sample as it was,     *)
(* whatever the filter type, and enters neither the analysis (with its     *)
(* planner) nor a sweep.                                                   *)
C13_EmptyKernelNoOp ==
    (calls = 1 /\ op \in FilterTypes /\ ~kernel_is_nonempty(kernel)) =>
        /\ field.data = before
        /\ den = [i \in 1 .. Len(field.data) |-> 1]
        /\ entered = NoEntry

C13_Witness ==
    /\ calls = 1 /\ op = GWY_MIN_MAX_FILTER_NORMALIZATION
    /\ kernel.xres = 2 /\ ~kernel_is_nonempty(kernel)
    /\ AreaOk(field, area.col, area.row, area.width, area.height)
    /\ \E i \in 1 .. Len(before) : before[i] # 0
    /\ field.data = before

(* C14: gwy_data_field_area_filter_disc_asf() with a radius of zero or     *)
(* less and a valid area makes no opening and no closing and leaves every  *)
(* sample as it was, whatever the closing flag.                            *)
C14_AsfRadiusZeroIdentity ==
    (/\ calls = 1 /\ op = DISC_ASF /\ asf.radius <= 0
     /\ AreaOk(field, area.col, area.row, area.width, area.height)) =>
        /\ field.data = before
        /\ entered = NoEntry

C14_Witness ==
    /\ calls = 1 /\ op = DISC_ASF /\ asf.radius = 0 /\ asf.closing
    /\ AreaOk(field, area.col, area.row, area.width, area.height)
    /\ area.width = 2 /\ area.height = 2
    /\ before = <<0, 1, 1, 0>>
    /\ field.data = before

(* C15: a call whose area breaks the precondition (col >= 0, row >= 0,     *)
(* width > 0, height > 0, col + width <= xres, row + height <= yres)       *)
(* returns at once, from the min/max filter and from the disc ASF alike:   *)
(* no analysis, no sweep, no sample modified.                              *)
C15_BadAreaLeavesFieldUntouched ==
    (calls = 1 /\ ~AreaOk(field, area.col, area.row, area.width, area.height))
        => /\ field.data = before
           /\ den = [i \in 1 .. Len(field.data) |-> 1]
           /\ entered = NoEntry

C15_Witness ==
    /\ calls = 1 /\ op = GWY_MIN_MAX_FILTER_MAXIMUM
    /\ kernel_is_nonempty(kernel)
    /\ area = [col |-> field.xres, row |-> 0, width |-> 1, height |-> 1]
    /\ field.data = before /\ Len(before) = 4

C15_WitnessAsf ==
    /\ calls = 1 /\ op = DISC_ASF /\ asf.radius = 1
    /\ area = [col |-> 0, row |-> 0, width |-> 1, height |-> 0]
    /\ field.data = before /\ Len(before) = 4

(* C16: no call modifies a sample outside its area: minimum, maximum,      *)
(* range, normalization, opening, closing and the disc ASF, the samples of *)
(* the extended area of an opening or closing included.                    *)
C16_OutsideAreaUnchanged ==
    calls = 1 =>
        \A i \in 1 .. Len(field.data) :
            ~InArea(field.xres, i, area.col, area.row, area.width, area.height)
                => field.data[i] = before[i] /\ den[i] = 1

C16_Witness ==
    /\ calls = 1 /\ op = GWY_MIN_MAX_FILTER_CLOSING
    /\ kernel.xres = 2 /\ kernel_is_nonempty(kernel)
    /\ field.xres = 2 /\ field.yres = 2
    /\ area = [col |-> 1, row |-> 1, width |-> 1, height |-> 1]
    /\ field.data[4] # before[4]
    /\ \E i \in 1 .. 3 : before[i] # before[4]

----------------------------------------------------------------------------
(* The planner on its own: a list of block lengths is planned, then the    *)
(* same lengths are planned again, in another order or with repetitions.   *)

MaxPlanLen == 11
MaxPlanLens == 3

BlockLists == UNION {[1 .. n -> 1 .. MaxPlanLen] : n \in 1 .. MaxPlanLens}
LengthSet(blocklens) == {blocklens[i] : i \in 1 .. Len(blocklens)}

InitPlan ==
    /\ lens \in BlockLists
    /\ xrow = << >> /\ prow = NoRow /\ ismax = FALSE /\ plan = NoPlan
    /\ IdleSweep
    /\ field = NoRaster /\ den = << >> /\ kernel = NoRaster
    /\ before = NoPlan
    /\ IdleCall
    /\ IdleRle

(* find_required_lengths_for_set() on blocklens; before keeps the plan     *)
(* made by the previous run.                                               *)
PlanSet(blocklens) ==
    /\ plan' = find_required_lengths_for_set(blocklens)
    /\ lens' = blocklens
    /\ before' = plan
    /\ calls' = calls + 1
    /\ UNCHANGED <<field, den, kernel, op, area, outmin, outmax, mrle, flips,
                   xrow, prow, ismax, entered, asf, window, sweeprow>>

PlanFirst == calls = 0 /\ PlanSet(lens)
PlanAgain ==
    /\ calls = 1
    /\ \E blocklens \in BlockLists :
           LengthSet(blocklens) = LengthSet(lens) /\ PlanSet(blocklens)

NextPlan == PlanFirst \/ PlanAgain
SpecPlan == InitPlan /\ [][NextPlan]_vars

(* C17: the plan (needed flags, sub-lengths and tags of both tables,       *)
(* maxlen_each, maxlen_even, nbuffers) is a function of the set of         *)
(* distinct lengths: planning the same lengths again, in any order and     *)
(* with any repetitions, gives the identical plan.                         *)
C17_PlanDependsOnLengthSetOnly == calls = 2 => plan = before

C17_Witness ==
    /\ calls = 2
    /\ lens = <<7, 11, 7>>
    /\ plan = before
    /\ plan.each[11].needed /\ plan.each[7].needed

(* C18: in a plan, every needed entry of a length L > 1, in either table,  *)
(* has sublen1 + sublen2 = L with both sub-lengths needed in the tables    *)
(* its tag designates: each + each in the each-table, even + even in the   *)
(* even-table, even/odd with sublen1 in the even-table and sublen2 in the  *)
(* each-table, and Even(2) made of Each(1) twice.  The sub-lengths are     *)
(* positive, so every needed length is reached from Each(1).               *)
C18_PlanWellFormed ==
    calls >= 1 =>
        /\ plan.each[1].needed
        /\ \A L \in 2 .. plan.maxlen_each :
            /\ plan.each[L].needed =>
                LET e == plan.each[L]
                IN /\ e.sublen1 >= 1 /\ e.sublen2 >= 1
                   /\ e.sublen1 + e.sublen2 = L
                   /\ ~e.even_even
                   /\ IF e.even_odd
                      THEN /\ plan.even[e.sublen1].needed
                           /\ plan.each[e.sublen2].needed
                      ELSE /\ plan.each[e.sublen1].needed
                           /\ plan.each[e.sublen2].needed
            /\ plan.even[L].needed =>
                LET e == plan.even[L]
                IN /\ e.sublen1 >= 1 /\ e.sublen2 >= 1
                   /\ e.sublen1 + e.sublen2 = L
                   /\ ~e.even_odd
                   /\ IF L = 2
                      THEN /\ e.sublen1 = 1 /\ e.sublen2 = 1 /\ ~e.even_even
                           /\ plan.each[1].needed
                      ELSE /\ e.even_even
                           /\ plan.even[e.sublen1].needed
                           /\ plan.even[e.sublen2].needed

C18_Witness ==
    /\ calls = 1
    /\ lens = <<11>>
    /\ plan.each[11].needed /\ plan.each[11].even_odd
    /\ plan.even[6].needed /\ plan.even[6].even_even
    /\ plan.even[2].needed

----------------------------------------------------------------------------
(* The sweep of gwy_data_field_area_min_max_execute() step by step: the    *)
(* seeding of prows[], then one advance before each further output row.   *)

MaxSweepXres == 2
MaxSweepYres == 3

SweepFields ==
    UNION {Rasters(s[1], s[2], Values) :
              s \in Shapes(MaxSweepXres, MaxSweepYres, MaxSamples)}
SweepKernels == {k \in Kernels : k.xres <= MaxSweepXres}

(* The analysis a minimum or maximum filter hands to its sweep. *)
SweepAnalysis(kern, maximum, width) ==
    LET mmp0 == gwy_data_field_area_rle_analyse(kern, width)
    IN IF maximum THEN FlipAfter(mmp0, mmp0.prows) ELSE mmp0

InitSweep ==
    /\ field \in SweepFields
    /\ kernel \in SweepKernels
    /\ den = [i \in 1 .. Len(field.data) |-> 1]
    /\ before = field.data
    /\ IdleCall
    /\ IdleRle
    /\ IdleRow

(* The two seeding loops, up to the extraction of output row 0. *)
SeedStep(maximum, a) ==
    /\ calls = 0
    /\ window' = Seed(field, SweepAnalysis(kernel, maximum, a.width),
                      maximum, a.col, a.row, a.width)
    /\ sweeprow' = 0
    /\ ismax' = maximum
    /\ area' = a
    /\ op' = IF maximum THEN GWY_MIN_MAX_FILTER_MAXIMUM
                        ELSE GWY_MIN_MAX_FILTER_MINIMUM
    /\ calls' = 1
    /\ UNCHANGED <<field, den, kernel, before, outmin, outmax, mrle, flips,
                   lens, xrow, prow, entered, asf, plan>>

(* One turn of the loop over the rows past the extraction: i is counted,   *)
(* prows[] rotated and its new bottom row precomputed.                     *)
AdvanceStep ==
    /\ calls = 1
    /\ sweeprow + 1 < area.height
    /\ window' = Advance(field, SweepAnalysis(kernel, ismax, area.width),
                         window, sweeprow + 1, ismax,
                         area.col, area.row, area.width)
    /\ sweeprow' = sweeprow + 1
    /\ UNCHANGED <<field, den, kernel, calls, op, area, before, outmin, outmax,
                   mrle, flips, lens, xrow, prow, ismax, entered, asf, plan>>

SeedCall ==
    \E a \in Areas(field) : \E maximum \in BOOLEAN : SeedStep(maximum, a)

NextSweep == SeedCall \/ AdvanceStep
SpecSweep == InitSweep /\ [][NextSweep]_vars

(* The precomputed running extrema of image row r, border-extended for the *)
(* area of the sweep in progress, in a fresh row buffer.                   *)
PrecomputedImageRow(r) ==
    LET mmp == SweepAnalysis(kernel, ismax, area.width)
    IN FillImageRow(field, mmp, mmp.prows[1], r, ismax, area.col, area.width)

(* prows[k] holds what the precomputation of image row r gives. *)
HoldsImageRow(prows, k, r) ==
    LET want == PrecomputedImageRow(r)
    IN prows[k + 1].each = want.each /\ prows[k + 1].even = want.even

(* prows[] is the window of output row i: prows[k] stands for image row    *)
(* row + i - extend_up + k, clamped into the field.                        *)
WindowAligned(prows, i) ==
    \A k \in 0 .. kernel.yres - 1 :
        HoldsImageRow(prows, k,
            Clamp(area.row + i - ExtendUp([kyres |-> kernel.yres], ismax) + k,
                  0, field.yres - 1))

(* C19: after the seeding and before the first output row, for every valid *)
(* area, prows[k] holds the precomputed running extrema of image row       *)
(* clamp(row - extend_up + k, 0, yres - 1) for every k in 0 .. kyres - 1.  *)
C19_SeedingEstablishesWindow ==
    (calls = 1 /\ sweeprow = 0) => WindowAligned(window, 0)

(* C20: an advance keeps the window aligned.  If before output row i + 1   *)
(* is prepared prows[k] holds image row clamp(row + i - extend_up + k, 0,  *)
(* yres - 1) for every k, then after the advance the same holds for i + 1; *)
(* the buffer that leaves position 0 is the one refilled at position       *)
(* kyres - 1, the others move down one position as they are, and prows[]   *)
(* is at all times a permutation of the kyres allocated buffers.           *)
C20_AdvanceKeepsWindowAligned ==
    /\ [][(AdvanceStep /\ WindowAligned(window, sweeprow)) =>
             /\ WindowAligned(window', sweeprow')
             /\ window'[kernel.yres].id = window[1].id
             /\ \A k \in 1 .. kernel.yres - 1 : window'[k] = window[k + 1]]_vars
    /\ [](calls = 1 =>
             /\ Len(window) = kernel.yres
             /\ {window[k].id : k \in 1 .. Len(window)} = 1 .. kernel.yres)

C20_Witness ==
    /\ calls = 1 /\ sweeprow = 2
    /\ kernel.yres = 3 /\ area.height = 3
    /\ field.data = <<0, 1, 0>>
    /\ WindowAligned(window, 2)

----------------------------------------------------------------------------
(* The border extension on its own: the first row of an area is extended   *)
(* as the sweep extends it before a row fill.                              *)

(* row_extend_border() of image row a.row into extrowbuf, with the         *)
(* extension amounts of the minimum or the maximum sweep; xrow keeps       *)
(* extrowbuf.                                                              *)
ExtendRow(maximum, a) ==
    /\ calls = 0
    /\ xrow' = row_extend_border(RowOf(field, a.row), a.col, a.width,
                   field.xres,
                   ExtendLeft([kxres |-> kernel.xres], maximum),
                   ExtendRight([kxres |-> kernel.xres], maximum))
    /\ ismax' = maximum
    /\ area' = a
    /\ calls' = 1
    /\ UNCHANGED <<field, den, kernel, op, before, outmin, outmax, mrle, flips,
                   lens, prow, entered, asf, plan, window, sweeprow>>

ExtendCall ==
    \E a \in Areas(field) : \E maximum \in BOOLEAN : ExtendRow(maximum, a)

NextExtend == ExtendCall
SpecExtend == Init /\ [][NextExtend]_vars

----------------------------------------------------------------------------
(* The kernel encoding against the kernel raster. *)

KernelAt(k, i, j) == k.data[i * k.xres + j + 1]
NonzeroCells(k) ==
    {c \in (0 .. k.yres - 1) \X (0 .. k.xres - 1) : KernelAt(k, c[1], c[2]) # 0}
SegmentCells(seg) == {<<seg.row, j>> : j \in seg.col .. seg.col + seg.len - 1}
CoveredCells(m) == UNION {SegmentCells(m[n]) : n \in 1 .. Len(m)}

(* C22: the encoder emits one segment per maximal horizontal run of        *)
(* nonzero cells: the cells covered are exactly the nonzero cells, every   *)
(* segment is bounded by a zero cell or the kernel's side, segments of one *)
(* row are separated by at least one zero cell, the list is strictly       *)
(* increasing in (row, col), and it is empty iff no cell is nonzero.       *)
C22_EncodingIsMaximalRuns ==
    calls = 1 =>
        /\ CoveredCells(before) = NonzeroCells(kernel)
        /\ \A n \in 1 .. Len(before) :
               LET seg == before[n]
               IN /\ seg.len >= 1
                  /\ seg.row \in 0 .. kernel.yres - 1
                  /\ seg.col >= 0 /\ seg.col + seg.len <= kernel.xres
                  /\ seg.col > 0 =>
                         KernelAt(kernel, seg.row, seg.col - 1) = 0
                  /\ seg.col + seg.len < kernel.xres =>
                         KernelAt(kernel, seg.row, seg.col + seg.len) = 0
        /\ \A n, p \in 1 .. Len(before) :
               n < p =>
                   \/ before[n].row < before[p].row
                   \/ /\ before[n].row = before[p].row
                      /\ before[n].col + before[n].len < before[p].col
        /\ (before = << >>) <=> (NonzeroCells(kernel) = {})

(* Two runs in one row, one of them ending at the kernel's side, and an    *)
(* empty row.                                                              *)
C22_Witness ==
    /\ calls = 1 /\ flips = 0
    /\ kernel = [xres |-> 3, yres |-> 2, data |-> <<1, 0, 1, 0, 0, 0>>]
    /\ mrle = <<[row |-> 0, col |-> 0, len |-> 1],
                [row |-> 0, col |-> 2, len |-> 1]>>

(* No cell is nonzero and the list is empty. *)
C22_WitnessEmpty ==
    /\ calls = 1 /\ NonzeroCells(kernel) = {} /\ before = << >>
    /\ kernel.xres * kernel.yres >= 2

----------------------------------------------------------------------------
(* The flip against the rotated kernel raster. *)

(* The kernel raster rotated by 180 degrees. *)
Rot180(k) ==
    [k EXCEPT !.data = [i \in 1 .. Len(k.data) |-> k.data[Len(k.data) + 1 - i]]]

(* C23: the flip maps every segment (row, col, len) to                     *)
(* (kyres - 1 - row, kxres - col - len, len): the number of segments and   *)
(* their lengths are kept, so the length plan is the same; the segments    *)
(* stay inside the kernel; the list is sorted by (row, col); and the list  *)
(* is the encoding of the kernel raster rotated by 180 degrees.            *)
C23_FlipIsRotatedEncoding ==
    flips = 1 =>
        /\ Len(mrle) = Len(before)
        /\ \A n \in 1 .. Len(mrle) :
               LET seg == before[Len(before) + 1 - n]
               IN mrle[n] = [row |-> kernel.yres - 1 - seg.row,
                             col |-> kernel.xres - seg.col - seg.len,
                             len |-> seg.len]
        /\ \A n \in 1 .. Len(mrle) :
               /\ mrle[n].col >= 0
               /\ mrle[n].col + mrle[n].len <= kernel.xres
               /\ mrle[n].row \in 0 .. kernel.yres - 1
        /\ \A n \in 1 .. Len(mrle) - 1 :
               \/ mrle[n].row < mrle[n + 1].row
               \/ /\ mrle[n].row = mrle[n + 1].row
                  /\ mrle[n].col < mrle[n + 1].col
        /\ mrle # << >> =>
               find_required_lengths_for_rle(mrle)
                   = find_required_lengths_for_rle(before)
        /\ mrle = run_length_encode_mask(Rot180(kernel))

(* An asymmetric kernel of three runs with different lengths, flipped      *)
(* once.                                                                   *)
C23_Witness ==
    /\ flips = 1
    /\ kernel = [xres |-> 3, yres |-> 2, data |-> <<1, 0, 1, 1, 1, 0>>]
    /\ mrle = <<[row |-> 0, col |-> 1, len |-> 2],
                [row |-> 1, col |-> 0, len |-> 1],
                [row |-> 1, col |-> 2, len |-> 1]>>

----------------------------------------------------------------------------
(* Each(1) in the plan and in the storage of a precomputed row. *)

C24_WitnessTwo ==
    calls = 1 /\ lens = <<2>> /\ plan.each[1].needed /\ plan.nbuffers = 2

C24_WitnessFive ==
    calls = 1 /\ lens = <<5>> /\ plan.each[1].needed /\ plan.nbuffers >= 3

----------------------------------------------------------------------------
(* gwy_data_field_area_filter_min_max_real() row by row: every sweep puts  *)
(* its output rows into a buffer of its own, and the field is written when *)
(* the last sweep has ended.  outmin is the buffer of the first sweep      *)
(* (outbuf, or tmpfield->data of an opening or closing), outmax the buffer *)
(* of the second sweep (outbuf2, or outbuf of an opening or closing);      *)
(* entered.execute is the sweep in progress and sweeprow the number of     *)
(* output rows it has produced.                                            *)

TwoSweeps(filtertype) ==
    filtertype \in {GWY_MIN_MAX_FILTER_RANGE, GWY_MIN_MAX_FILTER_NORMALIZATION,
                    GWY_MIN_MAX_FILTER_OPENING, GWY_MIN_MAX_FILTER_CLOSING}

(* The area of the first sweep: extended for an opening or closing. *)
FirstSweepArea(f, kern, filtertype, a) ==
    IF filtertype \in {GWY_MIN_MAX_FILTER_OPENING, GWY_MIN_MAX_FILTER_CLOSING}
    THEN OpenCloseExtent(f, kern, a.col, a.row, a.width, a.height)
    ELSE a

(* The arguments gwy_data_field_area_min_max_execute() gets for sweep      *)
(* number pass: the field it reads, the analysis, the operation, the area. *)
(* tmp is the buffer of the first sweep and prows the row buffers as the   *)
(* first sweep left them.  The analysis is bound once, as the element of a *)
(* singleton, and the result is the singleton of the arguments.            *)
StagedSweep(f, tmp, kern, filtertype, a, pass, prows) ==
    LET is_max     == (filtertype = GWY_MIN_MAX_FILTER_MAXIMUM)
        is_closing == (filtertype = GWY_MIN_MAX_FILTER_CLOSING)
        is_range   == filtertype \in {GWY_MIN_MAX_FILTER_RANGE,
                                      GWY_MIN_MAX_FILTER_NORMALIZATION}
        is_oc      == filtertype \in {GWY_MIN_MAX_FILTER_OPENING,
                                      GWY_MIN_MAX_FILTER_CLOSING}
        ext     == FirstSweepArea(f, kern, filtertype, a)
        here    == IF pass = 1 THEN ext
                   ELSE IF is_oc
                   THEN [col |-> a.col - ext.col, row |-> a.row - ext.row,
                         width |-> a.width, height |-> a.height]
                   ELSE a
        src     == IF is_oc /\ pass = 2
                   THEN [xres |-> ext.width, yres |-> ext.height, data |-> tmp]
                   ELSE f
        maximum == IF is_range THEN pass = 2
                   ELSE IF is_oc THEN (is_closing <=> pass = 1)
                   ELSE is_max
        (* The analysis of the first sweep is kept for the second when    *)
        (* the areas of the two are the same: its segments are flipped    *)
        (* where they stand, its row buffers are those the first sweep    *)
        (* left.  Otherwise the segments are encoded anew.                *)
        kept    == pass = 2 /\ (is_range \/ ext = a)
        flipped == kept /\ is_closing
    IN UNION {UNION {{[src |-> src, maximum |-> maximum, area |-> here,
                       mmp |-> IF kept \/ maximum
                               THEN FlipAfter(mmp1,
                                        IF kept THEN prows ELSE mmp1.prows)
                               ELSE mmp1]} :
                  mmp1 \in {IF flipped
                            THEN FlipAfter(mmp0, mmp0.prows)
                            ELSE mmp0}} :
           mmp0 \in {gwy_data_field_area_rle_analyse(kern, here.width)}}

(* Variant of StoreRow in which the sweep's target is the field itself:    *)
(* output row i goes to its place in the image at once.                    *)
StoreRowInImage(data, outbuf, xres, col, row, width, i, outrow) ==
    [image  |-> WriteArea(data, xres, col, row + i, width, 1, outrow),
     outbuf |-> outbuf \o outrow]

(* Output row i of a sweep is stored at outbuf + i*width; outbuf is        *)
(* storage of its own, the image is left as it is.                         *)
StoreRow(data, outbuf, xres, col, row, width, i, outrow) ==
    [image  |-> data,
     outbuf |-> outbuf \o outrow]

(* The call is entered, the first sweep seeds prows[] and produces its     *)
(* output row 0.                                                           *)
StagedBegin(filtertype, a) ==
    /\ calls = 0
    /\ AreaOk(field, a.col, a.row, a.width, a.height)
    /\ \E sw \in StagedSweep(field, << >>, kernel, filtertype, a, 1, << >>) :
       \E prows \in {Seed(sw.src, sw.mmp, sw.maximum,
                          sw.area.col, sw.area.row, sw.area.width)} :
       \E st \in {StoreRow(field.data, << >>, field.xres,
                           sw.area.col, sw.area.row, sw.area.width, 0,
                           mask_rle_execute_min_max(sw.mmp.mrle, prows,
                               sw.area.width, sw.maximum))} :
           /\ window' = prows
           /\ outmin' = st.outbuf
           /\ field' = [field EXCEPT !.data = st.image]
           /\ ismax' = sw.maximum
    /\ outmax' = << >>
    /\ sweeprow' = 1
    /\ op' = filtertype
    /\ area' = a
    /\ before' = field.data
    /\ calls' = 1
    /\ entered' = [analyse |-> 1, execute |-> 1]
    /\ UNCHANGED <<den, kernel, mrle, flips, lens, xrow, prow, asf, plan>>

(* One turn of the sweep's loop: prows[] advances, one more output row. *)
StagedRow ==
    /\ calls = 1
    /\ \E sw \in StagedSweep(field, outmin, kernel, op, area,
                             entered.execute, window) :
        /\ sweeprow < sw.area.height
        /\ \E prows \in {Advance(sw.src, sw.mmp, window, sweeprow, sw.maximum,
                                 sw.area.col, sw.area.row, sw.area.width)} :
           \E st \in {StoreRow(field.data,
                          IF entered.execute = 1 THEN outmin ELSE outmax,
                          field.xres, sw.area.col, sw.area.row, sw.area.width,
                          sweeprow,
                          mask_rle_execute_min_max(sw.mmp.mrle, prows,
                              sw.area.width, sw.maximum))} :
               /\ window' = prows
               /\ outmin' = IF entered.execute = 1 THEN st.outbuf ELSE outmin
               /\ outmax' = IF entered.execute = 1 THEN outmax ELSE st.outbuf
               /\ field' = [field EXCEPT !.data = st.image]
    /\ sweeprow' = sweeprow + 1
    /\ UNCHANGED <<den, kernel, calls, op, area, before, mrle, flips, lens,
                   xrow, prow, ismax, entered, asf, plan>>

(* The first sweep has produced its last row; the second sweep seeds       *)
(* prows[] and produces its output row 0.                                  *)
StagedSecond ==
    /\ calls = 1
    /\ TwoSweeps(op)
    /\ entered.execute = 1
    /\ \E first \in {FirstSweepArea(field, kernel, op, area)} :
       \E sw \in StagedSweep(field, outmin, kernel, op, area, 2, window) :
        /\ sweeprow = first.height
        /\ \E prows \in {Seed(sw.src, sw.mmp, sw.maximum,
                              sw.area.col, sw.area.row, sw.area.width)} :
           \E st \in {StoreRow(field.data, << >>, field.xres,
                               sw.area.col, sw.area.row, sw.area.width, 0,
                               mask_rle_execute_min_max(sw.mmp.mrle, prows,
                                   sw.area.width, sw.maximum))} :
               /\ window' = prows
               /\ outmax' = st.outbuf
               /\ field' = [field EXCEPT !.data = st.image]
               /\ ismax' = sw.maximum
        /\ entered' = [analyse |-> IF first = area THEN 1 ELSE 2,
                       execute |-> 2]
    /\ sweeprow' = 1
    /\ UNCHANGED <<den, kernel, calls, op, area, before, outmin, mrle, flips,
                   lens, xrow, prow, asf, plan>>

(* The last sweep has produced its last row; the area of the field is      *)
(* written from the buffers.                                               *)
StagedWrite ==
    /\ calls = 1
    /\ entered.execute = (IF TwoSweeps(op) THEN 2 ELSE 1)
    /\ sweeprow = area.height
    /\ LET inA(i) == InArea(field.xres, i, area.col, area.row,
                            area.width, area.height)
           at(i)  == OutIndex(field.xres, i, area.col, area.row, area.width)
       IN IF op \in {GWY_MIN_MAX_FILTER_RANGE, GWY_MIN_MAX_FILTER_NORMALIZATION}
          THEN \E outbuf \in Resolutions(outmin, Len(outmin)),
                  outbuf2 \in Resolutions(outmax, Len(outmax)) :
                  IF op = GWY_MIN_MAX_FILTER_RANGE
                  THEN /\ field' = [field EXCEPT !.data =
                              [i \in 1 .. Len(@) |->
                                  IF inA(i)
                                  THEN RangeValue(outbuf[at(i)], outbuf2[at(i)])
                                  ELSE @[i]]]
                       /\ den' = den
                  ELSE /\ field' = [field EXCEPT !.data =
                              [i \in 1 .. Len(@) |->
                                  IF inA(i)
                                  THEN NormNum(@[i], outbuf[at(i)],
                                               outbuf2[at(i)])
                                  ELSE @[i]]]
                       /\ den' = [i \in 1 .. Len(den) |->
                                  IF inA(i)
                                  THEN NormDen(outbuf[at(i)], outbuf2[at(i)])
                                  ELSE den[i]]
          ELSE \E raw \in {IF TwoSweeps(op) THEN outmax ELSE outmin} :
               \E outbuf \in Resolutions(raw, Len(raw)) :
                  /\ field' = [field EXCEPT !.data =
                                  WriteArea(@, field.xres, area.col, area.row,
                                            area.width, area.height, outbuf)]
                  /\ den' = den
    /\ calls' = 2
    /\ UNCHANGED <<kernel, op, area, before, outmin, outmax, mrle, flips, lens,
                   xrow, prow, ismax, entered, asf, plan, window, sweeprow>>

StagedCall ==
    \E a \in Areas(field) : \E ft \in FilterTypes : StagedBegin(ft, a)

NextStaged == StagedCall \/ StagedRow \/ StagedSecond \/ StagedWrite
SpecStaged == InitSweep /\ [][NextStaged]_vars

(* The buffers of the two sweeps as they are when the sweeps read nothing  *)
(* but the image the call was entered with.                                *)
StagedFromStart ==
    LET f  == [field EXCEPT !.data = before]
        a  == area
        is_closing == (op = GWY_MIN_MAX_FILTER_CLOSING)
        ext == OpenCloseExtent(f, kernel, a.col, a.row, a.width, a.height)
    IN IF op \in {GWY_MIN_MAX_FILTER_MINIMUM, GWY_MIN_MAX_FILTER_MAXIMUM}
       THEN [first  |-> MinMaxBranch(f, kernel,
                            op = GWY_MIN_MAX_FILTER_MAXIMUM,
                            a.col, a.row, a.width, a.height),
             second |-> << >>]
       ELSE IF op \in {GWY_MIN_MAX_FILTER_RANGE,
                       GWY_MIN_MAX_FILTER_NORMALIZATION}
       THEN LET raw == RangeBranch(f, kernel, a.col, a.row, a.width, a.height)
            IN [first |-> raw.outbuf, second |-> raw.outbuf2]
       ELSE LET first == OpenCloseFirst(f,
                             OpenCloseAnalysis(kernel, is_closing, ext.width),
                             is_closing, ext)
                mmp2  == OpenCloseReanalysis(first, kernel, is_closing, ext,
                             a.col, a.row, a.width, a.height)
            IN [first  |-> first.tmpfield.data,
                second |-> OpenCloseSecond(first.tmpfield, mmp2, is_closing,
                               ext, a.col, a.row, a.width, a.height)]

(* C25: the results of a call are staged and the image is read-only while  *)
(* output rows are computed.  No step that computes an output row changes  *)
(* the field; at every moment of the call the rows produced so far, in     *)
(* the first and in the second sweep of every filter type, are the rows    *)
(* obtained from the image as it was when the call was entered; and the    *)
(* field changes only in the step that follows the last output row of the  *)
(* last sweep.                                                             *)
C25_ResultsAreStaged ==
    /\ [][(calls' = 1) => (field' = field)]_vars
    /\ [](calls >= 1 =>
             \E want \in {StagedFromStart} :
                 /\ calls = 1 => field.data = before
                 /\ outmin = SubSeq(want.first, 1, Len(outmin))
                 /\ outmax = SubSeq(want.second, 1, Len(outmax))
                 /\ calls = 2 => /\ outmin = want.first
                                 /\ outmax = want.second)
    /\ [][(field' # field) =>
             /\ calls = 1 /\ calls' = 2
             /\ entered.execute = (IF TwoSweeps(op) THEN 2 ELSE 1)
             /\ sweeprow = area.height
             /\ Len(IF TwoSweeps(op) THEN outmax ELSE outmin)
                    = area.width * area.height]_vars

(* The second sweep of a call is under way with rows still to come: the    *)
(* rows it has produced differ from the image, which is as it was.         *)
C25_Witness ==
    /\ calls = 1
    /\ entered.execute = 2
    /\ sweeprow >= 1 /\ sweeprow < area.height
    /\ field.data = before
    /\ \E k \in 1 .. Len(outmax) :
           /\ outmax[k] # Uninit
           /\ outmax[k] # before[(area.row + (k - 1) \div area.width)
                                     * field.xres
                                 + area.col + ((k - 1) % area.width) + 1]

(* The field has been written after a two-sweep call of several rows. *)
C25_WitnessWritten ==
    /\ calls = 2
    /\ op = GWY_MIN_MAX_FILTER_CLOSING
    /\ area.height >= 2
    /\ field.data # before

----------------------------------------------------------------------------
(* gwy_data_field_area_filter_disc_asf() call by call: calls counts the    *)
(* calls of gwy_data_field_area_filter_min_max_real() the loop has made,   *)
(* op and kernel are the filter type and the kernel of the last one, and   *)
(* before is the image the last one was given.  op is DISC_ASF from the    *)
(* entry to the first call and ASF_RETURNED when the function has          *)
(* returned.                                                               *)

MaxAsfRadius == 2
ASF_RETURNED == "returned"

InitAsf ==
    /\ field \in EntryFields
    /\ kernel = NoRaster
    /\ den = [i \in 1 .. Len(field.data) |-> 1]
    /\ before = field.data
    /\ IdleCall
    /\ IdleRle
    /\ IdleRow

(* Variant of AsfCallArgs with filtertype1 and filtertype2 exchanged. *)
AsfCallArgsExchanged(n, closing) ==
    [size |-> 2 * ((n + 1) \div 2) + 1,
     filtertype |-> IF (n % 2 = 1) = closing
                    THEN GWY_MIN_MAX_FILTER_CLOSING
                    ELSE GWY_MIN_MAX_FILTER_OPENING]

(* The kernel size and the filter type of call number n = 1, 2, ... of the *)
(* loop: r = (n + 1)/2, size = 2r + 1, filtertype1 for the first call of a *)
(* turn and filtertype2 for the second.                                    *)
AsfCallArgs(n, closing) ==
    [size |-> 2 * ((n + 1) \div 2) + 1,
     filtertype |-> IF (n % 2 = 1) = closing
                    THEN GWY_MIN_MAX_FILTER_OPENING
                    ELSE GWY_MIN_MAX_FILTER_CLOSING]

(* gwy_data_field_area_filter_min_max_real() with OPENING or CLOSING: the  *)
(* precondition of the area, then the branch.                              *)
OpenCloseRealOutcomes(f, kern, is_closing, a) ==
    IF ~AreaOk(f, a.col, a.row, a.width, a.height)
    THEN {[f |-> f, analyse |-> 0]}
    ELSE OpenCloseOutcomes(f, kern, is_closing, a)

(* The function is entered with a valid area. *)
AsfEnter(radius, closing, a) ==
    /\ op = "none"
    /\ AreaOk(field, a.col, a.row, a.width, a.height)
    /\ asf' = [radius |-> radius, closing |-> closing]
    /\ op' = DISC_ASF
    /\ area' = a
    /\ UNCHANGED <<field, den, kernel, calls, before, outmin, outmax, mrle,
                   flips, lens, xrow, prow, ismax, entered, plan, window,
                   sweeprow>>

(* One call of gwy_data_field_area_filter_min_max_real() in the loop. *)
AsfCall ==
    /\ op \notin {"none", ASF_RETURNED}
    /\ (calls + 2) \div 2 <= asf.radius
    /\ \E args \in {AsfCallArgs(calls + 1, asf.closing)} :
       \E disc \in {DiscKernel(args.size)} :
       \E o \in OpenCloseRealOutcomes(field, disc,
                    args.filtertype = GWY_MIN_MAX_FILTER_CLOSING, area) :
           /\ field' = o.f
           /\ kernel' = disc
           /\ op' = args.filtertype
           /\ entered' = [analyse |-> entered.analyse + o.analyse,
                          execute |-> entered.execute + 2]
    /\ before' = field.data
    /\ calls' = calls + 1
    /\ UNCHANGED <<den, area, outmin, outmax, mrle, flips, lens, xrow, prow,
                   ismax, asf, plan, window, sweeprow>>

(* r exceeds radius: the loop ends and the function returns. *)
AsfReturn ==
    /\ op \notin {"none", ASF_RETURNED}
    /\ (calls + 2) \div 2 > asf.radius
    /\ op' = ASF_RETURNED
    /\ UNCHANGED <<field, den, kernel, calls, area, before, outmin, outmax,
                   mrle, flips, lens, xrow, prow, ismax, entered, asf, plan,
                   window, sweeprow>>

AsfEnterCall ==
    \E a \in Areas(field) :
        \E radius \in 0 .. MaxAsfRadius : \E closing \in BOOLEAN :
            AsfEnter(radius, closing, a)

NextAsf == AsfEnterCall \/ AsfCall \/ AsfReturn
SpecAsf == InitAsf /\ [][NextAsf]_vars

(* C26: for a radius R >= 1 the disc ASF makes exactly 2R filter calls.    *)
(* Call number n uses the disc kernel of (2r + 1) x (2r + 1) cells with    *)
(* r = (n + 1)/2, so r runs from 1 to R with two calls each; the first of  *)
(* the two is an opening and the second a closing when the closing flag is *)
(* TRUE, and the other way round when it is FALSE; and each call filters   *)
(* the image the previous call produced.                                   *)
C26_AsfOrdering ==
    /\ [][(calls' = calls + 1) =>
            LET r == calls \div 2 + 1
                first == (calls % 2 = 0)
                ft == IF first = asf.closing
                      THEN GWY_MIN_MAX_FILTER_OPENING
                      ELSE GWY_MIN_MAX_FILTER_CLOSING
            IN /\ r \in 1 .. asf.radius
               /\ kernel'.xres = 2 * r + 1 /\ kernel'.yres = 2 * r + 1
               /\ kernel' = DiscKernel(2 * r + 1)
               /\ op' = ft
               /\ before' = field.data
               /\ AreaOk(field, area.col, area.row, area.width, area.height)
               /\ \E o \in OpenCloseOutcomes(field, DiscKernel(2 * r + 1),
                               ft = GWY_MIN_MAX_FILTER_CLOSING, area) :
                      field' = o.f]_vars
    /\ [](op # "none" => calls <= 2 * asf.radius)
    /\ [][(op' = ASF_RETURNED /\ op # ASF_RETURNED) =>
             /\ calls = 2 * asf.radius
             /\ calls' = calls
             /\ field' = field]_vars
    /\ [][(op \notin {"none", ASF_RETURNED} /\ calls < 2 * asf.radius) =>
             calls' = calls + 1]_vars

(* Radius 2 with the closing flag: opening and closing with the disc of 3, *)
(* then opening and closing with the disc of 5, four calls made.           *)
C26_Witness ==
    /\ asf = [radius |-> 2, closing |-> TRUE]
    /\ calls = 4
    /\ op = ASF_RETURNED
    /\ kernel = DiscKernel(5)
    /\ entered.execute = 8

(* Radius 2 without the flag, three calls made: the closing with the disc  *)
(* of 5 has run, the opening is to come.                                   *)
C26_WitnessClosingFirst ==
    /\ asf = [radius |-> 2, closing |-> FALSE]
    /\ calls = 3
    /\ op = GWY_MIN_MAX_FILTER_CLOSING
    /\ kernel = DiscKernel(5)
    /\ field.data # before

----------------------------------------------------------------------------
(* One row fill turn by turn: calls is the value blen has reached, 1 when  *)
(* the row is about to be copied into Each(1).  The storage of the row is  *)
(* as min_max_precomputed_row_alloc() leaves it: what a buffer holds from  *)
(* before the fill counts as not written.                                  *)

(* Variant of FillTurn that walks the lengths downwards from maxlen_each. *)
FillTurnDescending(req, pr, blen, rowlen, maximum) ==
    LET l == req.maxlen_each + 2 - blen
    IN FillEvenStep(req, FillEachStep(req, pr, l, rowlen, maximum),
                    l, rowlen, maximum)

(* One turn of the loop over blen: Each(blen), then Even(blen). *)
FillTurn(req, pr, blen, rowlen, maximum) ==
    FillEvenStep(req, FillEachStep(req, pr, blen, rowlen, maximum),
                 blen, rowlen, maximum)

(* The fill is entered with the plan and the allocated row. *)
FillEnter(maximum) ==
    /\ calls = 0
    /\ \E req \in {find_required_lengths_for_set(lens)} :
           /\ plan' = req
           /\ prow' = min_max_precomputed_row_alloc(req, Len(xrow), 1)
    /\ ismax' = maximum
    /\ calls' = 1
    /\ UNCHANGED <<field, den, kernel, op, area, before, outmin, outmax,
                   mrle, flips, lens, xrow, entered, asf, window, sweeprow>>

(* The row itself is copied into Each(1). *)
FillCopy ==
    /\ calls = 1
    /\ prow' = [prow EXCEPT !.each[1] = [k \in 1 .. Len(xrow) |-> xrow[k]]]
    /\ calls' = 2
    /\ UNCHANGED <<field, den, kernel, op, area, before, outmin, outmax,
                   mrle, flips, lens, xrow, ismax, entered, asf, plan,
                   window, sweeprow>>

(* The turn of the loop for blen = calls. *)
FillLength ==
    /\ calls >= 2
    /\ calls <= plan.maxlen_each
    /\ prow' = FillTurn(plan, prow, calls, Len(xrow), ismax)
    /\ calls' = calls + 1
    /\ UNCHANGED <<field, den, kernel, op, area, before, outmin, outmax,
                   mrle, flips, lens, xrow, ismax, entered, asf, plan,
                   window, sweeprow>>

NextFill == (\E maximum \in BOOLEAN : FillEnter(maximum)) \/ FillCopy \/ FillLength
SpecFill == InitRow /\ [][NextFill]_vars

(* The positions of a buffer a fill computes: 0 .. rowlen - l of Each(l),  *)
(* the even ones among them of Even(l).                                    *)
EachDomain(l, rowlen) == {k \in 1 .. rowlen : k - 1 <= rowlen - l}
EvenDomain(l, rowlen) ==
    {k \in 1 .. rowlen : k - 1 <= rowlen - l /\ (k - 1) % 2 = 0}

(* Each(l) or Even(l) of pr has been written at all its positions. *)
EachWritten(pr, l, rowlen) ==
    \A k \in EachDomain(l, rowlen) : BufAt(EachBuf(pr, l), k) # Uninit
EvenWritten(pr, l, rowlen) ==
    \A k \in EvenDomain(l, rowlen) : BufAt(EvenBuf(pr, l), k) # Uninit

----------------------------------------------------------------------------
(* The even/odd interleave position by position. *)

(* Variant of compose_row_data_even_odd_accesses without the two tests     *)
(* that follow the loop.                                                   *)
compose_row_data_even_odd_accesses_loop_only(evenlen, oddlen, rowlen) ==
    LET n     == rowlen - (evenlen + oddlen)
        turns == (n + 1) \div 2
    IN [a \in 1 .. 2 * turns |->
           LET t == (a - 1) \div 2
           IN IF a % 2 = 1
              THEN [target |-> 2 * t, even |-> 2 * t,
                    odd |-> evenlen + 2 * t]
              ELSE [target |-> 2 * t + 1, even |-> oddlen + 1 + 2 * t,
                    odd |-> 1 + 2 * t]]

(* The accesses of compose_min_row_data_even_odd() and of its maximum      *)
(* twin in the order they are made: the index written in target and the    *)
(* indices read in even and in odd.  Turn t of the loop writes 2t from     *)
(* even + 2t and odd + evenlen + 2t, then 2t + 1 from even2 = even +       *)
(* oddlen + 1 + 2t and odd2 = odd + 1 + 2t; the loop makes (n + 1)/2       *)
(* turns, and the two tests after it add what is left up to n.             *)
compose_row_data_even_odd_accesses(evenlen, oddlen, rowlen) ==
    LET n     == rowlen - (evenlen + oddlen)
        turns == (n + 1) \div 2
        i     == 2 * turns
        loop  == [a \in 1 .. 2 * turns |->
                     LET t == (a - 1) \div 2
                     IN IF a % 2 = 1
                        THEN [target |-> 2 * t, even |-> 2 * t,
                              odd |-> evenlen + 2 * t]
                        ELSE [target |-> 2 * t + 1,
                              even |-> oddlen + 1 + 2 * t,
                              odd |-> 1 + 2 * t]]
        rest1 == IF i <= n
                 THEN <<[target |-> i, even |-> 2 * turns,
                         odd |-> evenlen + 2 * turns]>>
                 ELSE << >>
        rest2 == IF i <= n /\ i + 1 <= n
                 THEN <<[target |-> i + 1, even |-> oddlen + 1 + 2 * turns,
                         odd |-> 1 + 2 * turns]>>
                 ELSE << >>
    IN loop \o rest1 \o rest2

(* C28: when Each(L) is built from Even(E) and Each(O) with O odd and      *)
(* E + O = L, every read of the even buffer is at an even index of at most *)
(* rowlen - E, every read of the each buffer at an index of at most        *)
(* rowlen - O, and every target index 0 .. rowlen - L, of either parity    *)
(* and the last one included, is written exactly once, with the extremum   *)
(* of the two samples read.                                                *)
C28_EvenOddInterleave ==
    calls = 1 =>
        \A L \in 2 .. plan.maxlen_each :
            (plan.each[L].needed /\ plan.each[L].even_odd) =>
                LET E == plan.each[L].sublen1
                    O == plan.each[L].sublen2
                    rowlen == Len(xrow)
                    acc == compose_row_data_even_odd_accesses(E, O, rowlen)
                IN /\ E + O = L /\ E % 2 = 0 /\ O % 2 = 1
                   /\ \A a \in 1 .. Len(acc) :
                          /\ acc[a].even % 2 = 0
                          /\ acc[a].even >= 0 /\ acc[a].even <= rowlen - E
                          /\ acc[a].odd >= 0 /\ acc[a].odd <= rowlen - O
                          /\ prow.each[L][acc[a].target + 1] =
                                 Combine(ismax,
                                         prow.even[E][acc[a].even + 1],
                                         prow.each[O][acc[a].odd + 1])
                          /\ prow.each[L][acc[a].target + 1] # Uninit
                   /\ \A i \in 0 .. rowlen - L :
                          Cardinality({a \in 1 .. Len(acc) :
                                          acc[a].target = i}) = 1
                   /\ \A a \in 1 .. Len(acc) : acc[a].target \in 0 .. rowlen - L
                   /\ \A k \in 1 .. rowlen :
                          k - 1 > rowlen - L => prow.each[L][k] = Uninit

(* Each(5) from Even(2) and Each(3) in a row of 6 and Each(3) from Even(2) *)
(* and Each(1): an odd and an even number of target positions.             *)
C28_Witness ==
    /\ calls = 1
    /\ lens = <<5>> /\ Len(xrow) = 6
    /\ plan.each[5].even_odd /\ plan.each[5].sublen1 = 2
    /\ plan.each[3].even_odd /\ plan.each[3].sublen2 = 1
    /\ xrow = <<1, 0, 1, 1, 1, 0>>
    /\ ~ismax
    /\ prow.each[5] = <<0, 0, Uninit, Uninit, Uninit, Uninit>>

(* A single target position: only the first test after the loop writes. *)
C28_WitnessResidual ==
    /\ calls = 1
    /\ lens = <<5>> /\ Len(xrow) = 5
    /\ compose_row_data_even_odd_accesses(2, 3, 5)
           = <<[target |-> 0, even |-> 0, odd |-> 2]>>
    /\ prow.each[5][1] # Uninit

----------------------------------------------------------------------------
(* The reads of the fold of one output row. *)

(* The buffer positions mask_rle_execute_min_max() reads for an output row *)
(* of width samples: col .. col + width - 1 of prows[row].each[len] for    *)
(* every segment.                                                          *)
FoldReads(m, width) ==
    {[row |-> m[s].row, len |-> m[s].len, at |-> m[s].col + j] :
        s \in 1 .. Len(m), j \in 0 .. width - 1}

(* The indices of the reads of the fold are in range: each[len] of every   *)
(* segment, original or flipped, is needed in the plan and allocated with  *)
(* rowbuflen = width + kxres - 1 samples, row < kyres, and every index     *)
(* read lies within 0 .. rowbuflen - len.                                  *)
C29_FoldIndicesInRange ==
    calls = 1 =>
        \E mmp \in {SweepAnalysis(kernel, ismax, area.width)} :
            /\ mmp.rowbuflen = area.width + kernel.xres - 1
            /\ Len(window) = kernel.yres
            /\ \A rd \in FoldReads(mmp.mrle, area.width) :
                   /\ rd.len \in 1 .. mmp.req.maxlen_each
                   /\ mmp.req.each[rd.len].needed
                   /\ rd.row \in 0 .. kernel.yres - 1
                   /\ Len(window[rd.row + 1].each[rd.len]) = mmp.rowbuflen
                   /\ rd.at \in 0 .. mmp.rowbuflen - rd.len

(* C29: the fold reads only allocated and filled buffer positions: for     *)
(* every segment, original or flipped, each[len] is needed in the plan,    *)
(* row < kyres, the indices col .. col + width - 1 lie within              *)
(* 0 .. rowbuflen - len with rowbuflen = width + kxres - 1, and what is    *)
(* read there has been written by a row fill.                              *)
C29_FoldReadsFilledPositions ==
    calls = 1 =>
        \E mmp \in {SweepAnalysis(kernel, ismax, area.width)} :
            \A rd \in FoldReads(mmp.mrle, area.width) :
                /\ mmp.req.each[rd.len].needed
                /\ rd.row \in 0 .. kernel.yres - 1
                /\ rd.at \in 0 .. mmp.rowbuflen - rd.len
                /\ BufAt(EachBuf(window[rd.row + 1], rd.len), rd.at + 1)
                       # Uninit

----------------------------------------------------------------------------
(* gwy_data_field_area_filter_minimum() and                                *)
(* gwy_data_field_area_filter_maximum(): the filters with a square         *)
(* neighbourhood of size x size samples.  The buffers hold the area,       *)
(* width samples per row, indexed from 0.                                  *)

MaxSquareRes == 3
MaxSquareSize == 5

GWY_FILTER_MINIMUM == "filter_minimum"
GWY_FILTER_MAXIMUM == "filter_maximum"

(* gwy_data_field_area_copy() of the area into a buffer of its size. *)
AreaCopy(f, col, row, width, height) ==
    [n \in 1 .. width * height |->
        f.data[(row + (n - 1) \div width) * f.xres
               + col + ((n - 1) % width) + 1]]

(* One turn of the loop while (3*d < size): every sample becomes the       *)
(* extremum of the nine samples at the distances -d, 0, d, clamped to the  *)
(* area, of buf.                                                           *)
SquareTriple(buf, d, width, height, maximum) ==
    [n \in 1 .. width * height |->
        LET i  == (n - 1) \div width
            j  == (n - 1) % width
            ii == i * width
            im == MAX(i - d, 0) * width
            ip == MIN(i + d, height - 1) * width
            jm == MAX(j - d, 0)
            jp == MIN(j + d, width - 1)
            at == {im + jm, im + jp, im + j, ii + jm, ii + j, ip + j,
                   ii + jp, ip + jm, ip + jp}
        IN IF maximum THEN SetMax({buf[p + 1] : p \in at})
                      ELSE SetMin({buf[p + 1] : p \in at})]

(* The loop: d = 1, 3, 9, ... while 3*d < size; the buffer and d as the    *)
(* loop leaves them.                                                       *)
RECURSIVE SquareLoop(_, _, _, _, _, _)
SquareLoop(buf, d, size, width, height, maximum) ==
    IF 3 * d < size
    THEN SquareLoop(SquareTriple(buf, d, width, height, maximum), 3 * d,
                    size, width, height, maximum)
    ELSE [buf |-> buf, d |-> d]

(* The overlay of the neighbourhoods of d x d samples into squares of size *)
(* samples: the four corner representants, and all nine when 2*d < size.   *)
SquareOverlay(buf, d, size, width, height, maximum) ==
    [n \in 1 .. width * height |->
        LET ep == size \div 2
            em == (size - 1) \div 2
            i  == (n - 1) \div width
            j  == (n - 1) % width
            ii == i * width
            im == (MAX(i - em, 0) + d \div 2) * width
            ip == (MIN(i + ep, height - 1) - d \div 2) * width
            jm == MAX(j - em, 0) + d \div 2
            jp == MIN(j + ep, width - 1) - d \div 2
            at == {im + jm, im + jp, ip + jm, ip + jp}
                  \cup (IF 2 * d < size
                        THEN {im + j, ii + jm, ii + j, ii + jp, ip + j}
                        ELSE {})
        IN IF maximum THEN SetMax({buf[p + 1] : p \in at})
                      ELSE SetMin({buf[p + 1] : p \in at})]

(* The data of the field after the filter; size > 0 and the area is valid. *)
gwy_data_field_area_filter_square(f, size, maximum, col, row, width, height) ==
    IF size = 1 \/ size \div 2 >= MIN(width, height)
    THEN f.data
    ELSE LET looped == CHOOSE l \in
                 {SquareLoop(AreaCopy(f, col, row, width, height), 1, size,
                             width, height, maximum)} : TRUE
             buf2 == SquareOverlay(looped.buf, looped.d, size, width, height,
                                   maximum)
         IN WriteArea(f.data, f.xres, col, row, width, height, buf2)

SquareFields ==
    UNION {Rasters(w, h, Values) :
              w \in 1 .. MaxSquareRes, h \in 1 .. MaxSquareRes}

(* The kernel of size x size cells, all of them 1. *)
OnesKernel(size) ==
    [xres |-> size, yres |-> size, data |-> [n \in 1 .. size * size |-> 1]]

InitSquare ==
    /\ field \in SquareFields
    /\ kernel = NoRaster
    /\ den = [i \in 1 .. Len(field.data) |-> 1]
    /\ before = field.data
    /\ IdleCall
    /\ IdleRle
    /\ IdleRow

(* One call on the full field; kernel keeps the square neighbourhood as a  *)
(* kernel of ones.                                                         *)
SquareFilter(size, maximum) ==
    /\ calls = 0
    /\ field' = [field EXCEPT !.data =
                    gwy_data_field_area_filter_square(field, size, maximum,
                        0, 0, field.xres, field.yres)]
    /\ kernel' = OnesKernel(size)
    /\ ismax' = maximum
    /\ op' = IF maximum THEN GWY_FILTER_MAXIMUM ELSE GWY_FILTER_MINIMUM
    /\ area' = [col |-> 0, row |-> 0,
                width |-> field.xres, height |-> field.yres]
    /\ before' = field.data
    /\ calls' = 1
    /\ UNCHANGED <<den, outmin, outmax, mrle, flips, lens, xrow, prow,
                   entered, asf, plan, window, sweeprow>>

SquareMinimumCall == \E size \in 1 .. MaxSquareSize : SquareFilter(size, FALSE)
SquareMaximumCall == \E size \in 1 .. MaxSquareSize : SquareFilter(size, TRUE)

NextSquare == SquareMinimumCall \/ SquareMaximumCall
SpecSquare == InitSquare /\ [][NextSquare]_vars

(* What the structuring-element filter makes of the field the call was     *)
(* given, with the kernel of ones of the same size.                        *)
SquareByKernel ==
    MinMaxBranch([field EXCEPT !.data = before], kernel, ismax,
                 0, 0, field.xres, field.yres)

SquareApplies ==
    kernel.xres >= 2 /\ kernel.xres \div 2 < MIN(field.xres, field.yres)

(* C30: for every size >= 2 with size/2 < min(width, height) the square    *)
(* minimum (maximum) filter on the full field gives at every sample what   *)
(* Erosion (Dilation) with the size x size kernel of ones gives, at the    *)
(* bottom and right edges too and for even and odd sizes; for size 1 or    *)
(* size/2 >= min(width, height) the field is left as it was.               *)
C30_SquareAgreesWithKernelFilter ==
    calls = 1 =>
        IF SquareApplies
        THEN field.data = SquareByKernel
        ELSE field.data = before

(* The odd sizes agree away from the cases below: size 3 and 5. *)
C30_OddSizesAgree ==
    (calls = 1 /\ SquareApplies /\ kernel.xres % 2 = 1) =>
        field.data = SquareByKernel

(* Size 1 and sizes too large for the area leave the field as it was. *)
C30_NoOpSizes ==
    (calls = 1 /\ ~SquareApplies) => field.data = before

(* The minimum with size 2 agrees. *)
C30_MinimumOfTwoAgrees ==
    (calls = 1 /\ ~ismax /\ kernel.xres = 2 /\ SquareApplies) =>
        field.data = SquareByKernel

====
